---- MODULE Spec2Model ----
(***************************************************************************)
(* A model of huelightcli's Bridge API client layer (huelight-core):       *)
(* async_create_user, HueApiV1::async_get_all_lights,                      *)
(* HueApiV1::async_set_light_state, the serde models they parse and        *)
(* serialize, the Logger sink and Config::save / Config::load.             *)
(*                                                                         *)
(* Text whose bytes the code indexes (a response body) is a sequence of    *)
(* runs of Unicode code points; a string the code only moves or compares   *)
(* is a TLA+ string.  A JSON document is a tagged tree (JNull .. JObj);    *)
(* an object keeps its members as a sequence, so repeated keys and their   *)
(* order are visible to the deserializers.                                 *)
(***************************************************************************)
EXTENDS Integers, Sequences, FiniteSets, TLC

VARIABLES
    log,     \* Logger.entries: the entries pushed so far, oldest first
    mark,    \* Len(log) when the last call started
    call,    \* the last call: its operation, inputs, what the collaborators returned
    reqs,    \* transport requests issued by the last call, in order
    fcalls,  \* FileHandler calls made by the last call, in order
    files,   \* the file-access stub: path -> content
    ret,     \* what the last call returned (or that it panicked)
    ncalls,  \* calls made so far
    rt       \* LightState serialize/deserialize round trip under test

vars == <<log, mark, call, reqs, fcalls, files, ret, ncalls, rt>>

(***************************************************************************)
(* Bounds of the model.                                                    *)
(***************************************************************************)
MaxCalls == 2
\* The calls of log and entries that one thread makes on the shared Logger.
MaxOps == 2

(***************************************************************************)
(* Option<T>, Result<T, E> and a panic.                                    *)
(***************************************************************************)
None == [some |-> FALSE]
Some(x) == [some |-> TRUE, v |-> x]

Ok(x) == [kind |-> "Ok", val |-> x]
Err(e) == [kind |-> "Err", err |-> e]
Panic == [kind |-> "Panic"]

(***************************************************************************)
(* UTF-8 text and byte slicing: &res[..res.len().min(200)].                *)
(***************************************************************************)
SnippetLimit == 200

\* char::len_utf8
Utf8Len(c) == IF c < 128 THEN 1 ELSE IF c < 2048 THEN 2 ELSE IF c < 65536 THEN 3 ELSE 4

\* A text is the sequence of its runs: Run(c, n) is n >= 1 copies of code point
\* c, and neighbouring runs differ in c, so equal texts have equal run sequences.
Run(c, n) == [c |-> c, n |-> n]
RunBytes(r) == r.n * Utf8Len(r.c)

\* str::len(): the length in bytes.
RECURSIVE ByteLen(_)
ByteLen(s) == IF s = <<>> THEN 0 ELSE RunBytes(Head(s)) + ByteLen(Tail(s))

\* The length in characters.
RECURSIVE CharLen(_)
CharLen(s) == IF s = <<>> THEN 0 ELSE Head(s).n + CharLen(Tail(s))

Min(a, b) == IF a <= b THEN a ELSE b

\* str::is_char_boundary(n): byte n is the start of a character or the end of s.
RECURSIVE IsCharBoundary(_, _)
IsCharBoundary(s, n) ==
    IF n = 0 THEN TRUE
    ELSE IF s = <<>> THEN FALSE
    ELSE IF RunBytes(Head(s)) <= n
    THEN IsCharBoundary(Tail(s), n - RunBytes(Head(s)))
    ELSE n % Utf8Len(Head(s).c) = 0

\* The characters of s that make up its first n bytes, n a character boundary.
RECURSIVE FirstBytes(_, _)
FirstBytes(s, n) ==
    IF n = 0 \/ s = <<>> THEN <<>>
    ELSE IF RunBytes(Head(s)) <= n
    THEN <<Head(s)>> \o FirstBytes(Tail(s), n - RunBytes(Head(s)))
    ELSE <<Run(Head(s).c, n \div Utf8Len(Head(s).c))>>

\* &s[..n]: the slice, or a panic when byte n is inside a character.
SliceIgnoringBoundary(s, n) == Ok(FirstBytes(s, n))
SliceTo(s, n) == IF IsCharBoundary(s, n) THEN Ok(FirstBytes(s, n)) ELSE Panic

Truncated(res) == SliceTo(res, Min(ByteLen(res), SnippetLimit))

(***************************************************************************)
(* JSON documents.                                                         *)
(***************************************************************************)
JNull == [t |-> "null"]
JBool(b) == [t |-> "bool", b |-> b]
JNum(n) == [t |-> "num", n |-> n]
JStr(s) == [t |-> "str", s |-> s]
JArr(s) == [t |-> "arr", a |-> s]
JObj(m) == [t |-> "obj", m |-> m]
Member(k, v) == [k |-> k, v |-> v]
\* What serde_json::from_str finds when the text is not JSON at all.
NotJson == [t |-> "invalid"]

\* The indices of the members of object d with key k.
KeyIdx(d, k) == {i \in 1..Len(d.m) : d.m[i].k = k}
\* The value of the only member with key k.
Field(d, k) == d.m[CHOOSE i \in KeyIdx(d, k) : TRUE].v

IsU8(v) == v.t = "num" /\ v.n >= 0 /\ v.n <= 255
IsU16(v) == v.t = "num" /\ v.n >= 0 /\ v.n <= 65535
IsI32(v) == v.t = "num" /\ v.n >= -2147483647 - 1 /\ v.n <= 2147483647

(***************************************************************************)
(* CoreError, HueBridgeError, ConfigError (error.rs).                      *)
(***************************************************************************)
Network == [e |-> "Network"]
Serialization == [e |-> "Serialization"]
FileHandlerError(io) == [e |-> "FileHandlerError", io |-> io]
Bridge(b) == [e |-> "Bridge", bridge |-> b]
Config(c) == [e |-> "Config", config |-> c]
UnexpectedResponse(m) == [e |-> "UnexpectedResponse", msg |-> m]
InvalidReqwestHeaderName == [e |-> "InvalidReqwestHeaderName"]
InvalidReqwestHeaderValue == [e |-> "InvalidReqwestHeaderValue"]

LinkButtonNotPressed == [kind |-> "LinkButtonNotPressed"]
Other(code, message) == [kind |-> "Other", code |-> code, message |-> message]

\* The serde_json::Error a failed (de)serialization carries, as `{err}` prints it.
SerdeError == "serde_json::Error"

(***************************************************************************)
(* Log messages: format! joins literal pieces and arguments; a message is  *)
(* the sequence of its pieces.  Lit is a string piece, Txt a piece of raw  *)
(* text.                                                                   *)
(***************************************************************************)
Lit(s) == [lit |-> s]
Txt(s) == [txt |-> s]

\* Logger::log pushes message + "\n".
Logger_logMutantNoNewline(message) == message
Logger_log(message) == Append(message, Lit("\n"))

(***************************************************************************)
(* models/createuser.rs                                                    *)
(***************************************************************************)
\* struct SuccessDetail { username: String }
De_SuccessDetail(v) ==
    IF v.t = "obj" THEN
        IF Cardinality(KeyIdx(v, "username")) = 1 /\ Field(v, "username").t = "str"
        THEN Ok([username |-> Field(v, "username").s])
        ELSE Err(SerdeError)
    ELSE IF v.t = "arr" THEN
        IF Len(v.a) = 1 /\ v.a[1].t = "str"
        THEN Ok([username |-> v.a[1].s])
        ELSE Err(SerdeError)
    ELSE Err(SerdeError)

\* struct ErrorDetail { type: i32, address: String, description: String }
De_ErrorDetail(v) ==
    IF v.t = "obj" THEN
        IF /\ Cardinality(KeyIdx(v, "type")) = 1 /\ IsI32(Field(v, "type"))
           /\ Cardinality(KeyIdx(v, "address")) = 1 /\ Field(v, "address").t = "str"
           /\ Cardinality(KeyIdx(v, "description")) = 1
           /\ Field(v, "description").t = "str"
        THEN Ok([type |-> Field(v, "type").n,
                 address |-> Field(v, "address").s,
                 description |-> Field(v, "description").s])
        ELSE Err(SerdeError)
    ELSE IF v.t = "arr" THEN
        IF Len(v.a) = 3 /\ IsI32(v.a[1]) /\ v.a[2].t = "str" /\ v.a[3].t = "str"
        THEN Ok([type |-> v.a[1].n, address |-> v.a[2].s, description |-> v.a[3].s])
        ELSE Err(SerdeError)
    ELSE Err(SerdeError)

\* The one field of a struct variant { k: T }: by key from a map, by position from
\* a sequence.
VariantField(v, k) ==
    IF v.t = "obj" /\ Cardinality(KeyIdx(v, k)) = 1 THEN Some(Field(v, k))
    ELSE IF v.t = "arr" /\ Len(v.a) = 1 THEN Some(v.a[1])
    ELSE None

\* #[serde(untagged)] enum CreateUserEntry { Success { success }, Error { error } }:
\* the variants are tried in declaration order.
De_CreateUserEntry(v) ==
    LET s == VariantField(v, "success")
        e == VariantField(v, "error")
    IN  IF s.some /\ De_SuccessDetail(s.v).kind = "Ok"
        THEN Ok([variant |-> "Success", success |-> De_SuccessDetail(s.v).val])
        ELSE IF e.some /\ De_ErrorDetail(e.v).kind = "Ok"
        THEN Ok([variant |-> "Error", error |-> De_ErrorDetail(e.v).val])
        ELSE Err(SerdeError)

\* type CreateUserResponse = Vec<CreateUserEntry>
De_CreateUserResponse(d) ==
    IF d.t = "arr" /\ \A i \in 1..Len(d.a) : De_CreateUserEntry(d.a[i]).kind = "Ok"
    THEN Ok([i \in 1..Len(d.a) |-> De_CreateUserEntry(d.a[i]).val])
    ELSE Err(SerdeError)

\* struct User { devicetype: Option<String>, username: Option<String> }
User_with_devicetypeMutantBoth(devicetype) ==
    [devicetype |-> Some(devicetype), username |-> Some("")]
User_with_devicetype(devicetype) == [devicetype |-> Some(devicetype), username |-> None]
User_with_usernameMutantAsDevice(username) ==
    [devicetype |-> Some(username), username |-> None]
User_with_username(username) == [devicetype |-> None, username |-> Some(username)]

\* Serialize for User: #[serde(skip_serializing_if = "Option::is_none")] on both fields.
Ser_User(u) ==
    JObj((IF u.devicetype.some THEN <<Member("devicetype", JStr(u.devicetype.v))>> ELSE <<>>)
         \o (IF u.username.some THEN <<Member("username", JStr(u.username.v))>> ELSE <<>>))

(***************************************************************************)
(* models/light.rs                                                         *)
(***************************************************************************)
\* The value a JSON boolean or number carries.
Scalar(x) == IF x.t = "bool" THEN x.b ELSE x.n

\* An Option<T> field of a derived struct read from a map: a repeated key is an
\* error, an absent key or a null is None, anything else must be a T.
IsBool(v) == v.t = "bool"
IsT(ty, v) == IF ty = "bool" THEN IsBool(v) ELSE IF ty = "u16" THEN IsU16(v) ELSE IsU8(v)
OptFieldOk(v, k, ty) ==
    \/ KeyIdx(v, k) = {}
    \/ Cardinality(KeyIdx(v, k)) = 1 /\ (Field(v, k).t = "null" \/ IsT(ty, Field(v, k)))
OptFieldVal(v, k) ==
    IF KeyIdx(v, k) = {} \/ Field(v, k).t = "null" THEN None ELSE Some(Scalar(Field(v, k)))
\* The same field read by position from a sequence.
OptElemOk(x, ty) == x.t = "null" \/ IsT(ty, x)
OptElemVal(x) == IF x.t = "null" THEN None ELSE Some(Scalar(x))

\* struct LightState { on: Option<bool>, bri: Option<u16>, hue: Option<u16>,
\*                     sat: Option<u8> }
De_LightState(v) ==
    IF v.t = "obj" THEN
        IF /\ OptFieldOk(v, "on", "bool") /\ OptFieldOk(v, "bri", "u16")
           /\ OptFieldOk(v, "hue", "u16") /\ OptFieldOk(v, "sat", "u8")
        THEN Ok([on |-> OptFieldVal(v, "on"), brightness |-> OptFieldVal(v, "bri"),
                 hue |-> OptFieldVal(v, "hue"), saturation |-> OptFieldVal(v, "sat")])
        ELSE Err(SerdeError)
    ELSE IF v.t = "arr" THEN
        IF /\ Len(v.a) = 4
           /\ OptElemOk(v.a[1], "bool") /\ OptElemOk(v.a[2], "u16")
           /\ OptElemOk(v.a[3], "u16") /\ OptElemOk(v.a[4], "u8")
        THEN Ok([on |-> OptElemVal(v.a[1]), brightness |-> OptElemVal(v.a[2]),
                 hue |-> OptElemVal(v.a[3]), saturation |-> OptElemVal(v.a[4])])
        ELSE Err(SerdeError)
    ELSE Err(SerdeError)

\* Serialize for LightState: every field has skip_serializing_if = "Option::is_none";
\* brightness is renamed bri, saturation sat.  The fields are written in
\* declaration order.
JScalar(ty, x) == IF ty = "bool" THEN JBool(x) ELSE JNum(x)
SerOpt(k, o, ty) == IF o.some THEN <<Member(k, JScalar(ty, o.v))>> ELSE <<>>
SerOptOrNull(k, o, ty) ==
    IF o.some THEN <<Member(k, JScalar(ty, o.v))>> ELSE <<Member(k, JNull)>>
Ser_LightStateMutantNoSkip(state) ==
    JObj(SerOptOrNull("on", state.on, "bool") \o SerOptOrNull("bri", state.brightness, "u16")
         \o SerOptOrNull("hue", state.hue, "u16")
         \o SerOptOrNull("sat", state.saturation, "u8"))
Ser_LightState(state) ==
    JObj(SerOpt("on", state.on, "bool") \o SerOpt("bri", state.brightness, "u16")
         \o SerOpt("hue", state.hue, "u16") \o SerOpt("sat", state.saturation, "u8"))

LightState_default == [on |-> None, brightness |-> None, hue |-> None, saturation |-> None]

\* struct Light { state: LightState, name: String, type: String }
De_Light(v) ==
    IF v.t = "obj" THEN
        IF /\ Cardinality(KeyIdx(v, "state")) = 1
           /\ De_LightState(Field(v, "state")).kind = "Ok"
           /\ Cardinality(KeyIdx(v, "name")) = 1 /\ Field(v, "name").t = "str"
           /\ Cardinality(KeyIdx(v, "type")) = 1 /\ Field(v, "type").t = "str"
        THEN Ok([state |-> De_LightState(Field(v, "state")).val,
                 name |-> Field(v, "name").s,
                 type |-> Field(v, "type").s])
        ELSE Err(SerdeError)
    ELSE IF v.t = "arr" THEN
        IF /\ Len(v.a) = 3 /\ De_LightState(v.a[1]).kind = "Ok"
           /\ v.a[2].t = "str" /\ v.a[3].t = "str"
        THEN Ok([state |-> De_LightState(v.a[1]).val, name |-> v.a[2].s,
                 type |-> v.a[3].s])
        ELSE Err(SerdeError)
    ELSE Err(SerdeError)

\* A map key read as LightId = u32: the key's text must be a decimal number that
\* fits.  (Keys are kept as code points; 48..57 are the digits.  Every number of
\* up to nine digits fits u32; longer keys are not among the inputs.)
IsDigit(c) == c >= 48 /\ c <= 57
RECURSIVE DecValue(_)
DecValue(k) == IF k = <<>> THEN 0 ELSE 10 * DecValue(SubSeq(k, 1, Len(k) - 1)) + (k[Len(k)] - 48)
De_LightId(k) ==
    IF /\ k # <<>>
       /\ \A i \in 1..Len(k) : IsDigit(k[i])
       /\ (Len(k) > 1 => k[1] # 48)
       /\ Len(k) <= 9
    THEN Ok(DecValue(k))
    ELSE Err(SerdeError)

\* struct LightResponse(HashMap<LightId, Light>): every member must read as a
\* (LightId, Light) pair; a later member replaces an earlier one with the same id.
LastIdxMutantFirst(d, id) ==
    CHOOSE i \in 1..Len(d.m) :
        /\ De_LightId(d.m[i].k).val = id
        /\ \A j \in 1..Len(d.m) : De_LightId(d.m[j].k).val = id => j >= i
LastIdx(d, id) ==
    CHOOSE i \in 1..Len(d.m) :
        /\ De_LightId(d.m[i].k).val = id
        /\ \A j \in 1..Len(d.m) : De_LightId(d.m[j].k).val = id => j <= i
De_LightResponse(d) ==
    IF /\ d.t = "obj"
       /\ \A i \in 1..Len(d.m) :
            De_LightId(d.m[i].k).kind = "Ok" /\ De_Light(d.m[i].v).kind = "Ok"
    THEN Ok([id \in {De_LightId(d.m[i].k).val : i \in 1..Len(d.m)} |->
                De_Light(d.m[LastIdx(d, id)].v).val])
    ELSE Err(SerdeError)

(***************************************************************************)
(* models/hueerror.rs                                                      *)
(***************************************************************************)
\* type HueSuccessDetail = HashMap<String, Value>: any object; a later member
\* replaces an earlier one with the same key.
De_HueSuccessDetail(v) ==
    IF v.t = "obj"
    THEN Ok([k \in {v.m[i].k : i \in 1..Len(v.m)} |->
                v.m[CHOOSE i \in KeyIdx(v, k) : \A j \in KeyIdx(v, k) : j <= i].v])
    ELSE Err(SerdeError)

\* #[serde(untagged)] enum HueResponseEntry { Error { error }, Success { success } }
De_HueResponseEntry(v) ==
    LET e == VariantField(v, "error")
        s == VariantField(v, "success")
    IN  IF e.some /\ De_ErrorDetail(e.v).kind = "Ok"
        THEN Ok([variant |-> "Error", error |-> De_ErrorDetail(e.v).val])
        ELSE IF s.some /\ De_HueSuccessDetail(s.v).kind = "Ok"
        THEN Ok([variant |-> "Success", success |-> De_HueSuccessDetail(s.v).val])
        ELSE Err(SerdeError)

\* type HueResponse = Vec<HueResponseEntry>
De_HueResponseMutantFirstOnly(d) ==
    IF d.t = "arr" /\ \A i \in 1..Len(d.a) : De_HueResponseEntry(d.a[i]).kind = "Ok"
    THEN Ok([i \in 1..Min(1, Len(d.a)) |-> De_HueResponseEntry(d.a[i]).val])
    ELSE Err(SerdeError)
De_HueResponse(d) ==
    IF d.t = "arr" /\ \A i \in 1..Len(d.a) : De_HueResponseEntry(d.a[i]).kind = "Ok"
    THEN Ok([i \in 1..Len(d.a) |-> De_HueResponseEntry(d.a[i]).val])
    ELSE Err(SerdeError)

(***************************************************************************)
(* hue_api.rs: the three bridge operations.  A transport result is         *)
(* Err(CoreError) or Ok(body); a body is its text `raw` together with the  *)
(* JSON document `doc` that text denotes (NotJson when it denotes none).   *)
(* Each operation yields what it returns (`ret`), the entries it pushes    *)
(* onto the log (`lines`) and the transport requests it issues (`reqs`).   *)
(***************************************************************************)
Header(name, value) == [name |-> name, value |-> value]

\* async_create_user(ip_address, device_name, client, logger), given what
\* client.post_json returns.
\* `?` on what the client answers: the error goes to the caller as it is.
FromClientErrorMutantSerialization(err) == Serialization
FromClientError(err) == err

FirstEntryMutantLast(parsed) == parsed[Len(parsed)]
FirstEntry(parsed) == parsed[1]
ErrorOfMutantNo101(error) == Bridge(Other(ToString(error.type), error.description))
ErrorOf(error) ==
    IF error.type = 101 THEN Bridge(LinkButtonNotPressed)
    ELSE Bridge(Other(ToString(error.type), error.description))

async_create_user(ip_address, device_name, post) ==
    LET new_user == User_with_devicetype(device_name)
        json_user == Ser_User(new_user)
        url == "http://" \o ip_address \o "/api"
        headers == <<Header("Content-Type", "application/json")>>
        request == [method |-> "POST", url |-> url, body |-> json_user,
                    headers |-> headers]
    IN  IF post.kind = "Err"
        THEN [ret |-> Err(FromClientError(post.err)), lines |-> <<>>, reqs |-> <<request>>]
        ELSE
        LET res == post.val
            parsed == De_CreateUserResponse(res.doc)
        IN  IF parsed.kind = "Err" THEN
                IF Truncated(res.raw).kind = "Panic"
                THEN [ret |-> Panic, lines |-> <<>>, reqs |-> <<request>>]
                ELSE [ret |-> Err(Serialization),
                      lines |-> <<Logger_log(
                          <<Lit("Failed to parse CreateUserResponse JSON: "),
                            Lit(parsed.err), Lit(". Raw(truncated): "),
                            Txt(Truncated(res.raw).val)>>)>>,
                      reqs |-> <<request>>]
            ELSE IF parsed.val = <<>> THEN
                LET message ==
                        "User could not be created. The Hue Bridge returned an unrecognized JSON format."
                IN  [ret |-> Err(UnexpectedResponse(Lit(message))),
                     lines |-> <<Logger_log(<<Lit(message)>>)>>,
                     reqs |-> <<request>>]
            ELSE IF FirstEntry(parsed.val).variant = "Success" THEN
                LET success == FirstEntry(parsed.val).success
                IN  [ret |-> Ok(User_with_username(success.username)),
                     lines |-> <<Logger_log(
                         <<Lit("User created successfully! Username: "),
                           Lit(success.username)>>)>>,
                     reqs |-> <<request>>]
            ELSE
                LET error == FirstEntry(parsed.val).error
                IN  [ret |-> Err(ErrorOf(error)),
                     lines |-> <<Logger_log(
                         <<Lit("Error creating user: "), Lit(ToString(error.type)),
                           Lit(" - "), Lit(error.address), Lit(" - "),
                           Lit(error.description)>>)>>,
                     reqs |-> <<request>>]

\* HueApiV1::async_get_all_lights(ip_address, username), given what client.get
\* returns.
async_get_all_lights(ip_address, username, get) ==
    LET url == "http://" \o ip_address \o "/api/" \o username \o "/lights"
        request == [method |-> "GET", url |-> url, headers |-> <<>>]
    IN  IF get.kind = "Err"
        THEN [ret |-> Err(FromClientError(get.err)), lines |-> <<>>, reqs |-> <<request>>]
        ELSE
        LET res == get.val
            parsed == De_LightResponse(res.doc)
        IN  IF parsed.kind = "Err" THEN
                IF Truncated(res.raw).kind = "Panic"
                THEN [ret |-> Panic, lines |-> <<>>, reqs |-> <<request>>]
                ELSE [ret |-> Err(Serialization),
                      lines |-> <<Logger_log(
                          <<Lit("Failed to parse lights JSON: "), Lit(parsed.err),
                            Lit(". Raw (truncated): "),
                            Txt(Truncated(res.raw).val)>>)>>,
                      reqs |-> <<request>>]
            ELSE [ret |-> Ok(parsed.val), lines |-> <<>>, reqs |-> <<request>>]

\* HueApiV1::async_set_light_state(ip_address, username, light_id, state), given
\* what client.put_json returns.  serde_json::to_string cannot fail on a LightState,
\* so its map_err never runs.
async_set_light_state(ip_address, username, light_id, state, put) ==
    LET url == "http://" \o ip_address \o "/api/" \o username \o "/lights/"
                   \o ToString(light_id) \o "/state"
        json_state == Ser_LightState(state)
        headers == <<Header("Content-Type", "application/json")>>
        request == [method |-> "PUT", url |-> url, body |-> json_state,
                    headers |-> headers]
    IN  IF put.kind = "Err"
        THEN [ret |-> Err(FromClientError(put.err)), lines |-> <<>>, reqs |-> <<request>>]
        ELSE
        LET res == put.val
            hue_response_list == De_HueResponse(res.doc)
        IN  IF hue_response_list.kind = "Err"
            THEN [ret |-> Err(Serialization), lines |-> <<>>, reqs |-> <<request>>]
            ELSE [ret |-> Ok(hue_response_list.val), lines |-> <<>>,
                  reqs |-> <<request>>]

(***************************************************************************)
(* config.rs: Config::save and Config::load over an injected FileHandler.  *)
(* `env` holds what the collaborators answer: dirs::config_dir()           *)
(* (None, or Some of a path that is or is not valid UTF-8) and the results *)
(* of create_dir_all, write_file and read_file.  The stub keeps what       *)
(* write_file is given in `files` and read_file answers from it.           *)
(***************************************************************************)
\* struct Config { bridge_ip: String, username: String }
Config_newMutantSwapped(bridge_ip, username) ==
    [bridge_ip |-> username, username |-> bridge_ip]
Config_new(bridge_ip, username) == [bridge_ip |-> bridge_ip, username |-> username]

Ser_ConfigMutantEmptyUsername(c) ==
    JObj(<<Member("bridge_ip", JStr(c.bridge_ip)), Member("username", JStr(""))>>)
Ser_Config(c) ==
    JObj(<<Member("bridge_ip", JStr(c.bridge_ip)), Member("username", JStr(c.username))>>)

De_ConfigMutantDefaults(v) ==
    IF v.t = "obj"
    THEN Ok(Config_new(IF KeyIdx(v, "bridge_ip") = {} THEN "" ELSE Field(v, "bridge_ip").s,
                       IF KeyIdx(v, "username") = {} THEN "" ELSE Field(v, "username").s))
    ELSE Err(SerdeError)
De_Config(v) ==
    IF v.t = "obj" THEN
        IF /\ Cardinality(KeyIdx(v, "bridge_ip")) = 1 /\ Field(v, "bridge_ip").t = "str"
           /\ Cardinality(KeyIdx(v, "username")) = 1 /\ Field(v, "username").t = "str"
        THEN Ok(Config_new(Field(v, "bridge_ip").s, Field(v, "username").s))
        ELSE Err(SerdeError)
    ELSE IF v.t = "arr" THEN
        IF Len(v.a) = 2 /\ v.a[1].t = "str" /\ v.a[2].t = "str"
        THEN Ok(Config_new(v.a[1].s, v.a[2].s))
        ELSE Err(SerdeError)
    ELSE Err(SerdeError)

\* Pieces of a log message that print a document or an error ({:?}).
DocPiece(d) == [doc |-> d]
ErrPiece(e) == [err |-> e]

\* dirs::config_dir().join("huelightcli") and its config.json.
ConfigDir(base) == base \o "/huelightcli"
ConfigPath(base) == ConfigDir(base) \o "/config.json"

\* What save makes of a create_dir_all failure (the map_err closure's value).
CreateDirErrorMutantPropagate(err) == err
CreateDirErrorMutantSerialization(err) == Serialization
CreateDirError(err) == Config("ConfigDirectoryCreateError")

\* The message of the success line: format!("Saving config to {config_path}: {config_json}").
SavingMessageMutantNoContent(config_path, config_json) ==
    <<Lit("Saving config to "), Lit(config_path)>>
SavingMessage(config_path, config_json) ==
    <<Lit("Saving config to "), Lit(config_path), Lit(": "), DocPiece(config_json)>>

\* `?` on what write_file answers: From<CoreError> for CoreError is the identity.
WriteErrorMutantReclassified(err) == FileHandlerError("Other")
WriteError(err) == err

\* Config::save(&self, logger, file_handler).  serde_json::to_string cannot fail on
\* a Config, so its map_err never runs.
Config_save(self, env, fs) ==
    IF ~env.config_dir.some
    THEN [ret |-> Err(Config("ConfigDirectoryNotFoundError")), lines |-> <<>>,
          fcalls |-> <<>>, files |-> fs]
    ELSE
    LET config_dir == ConfigDir(env.config_dir.v.path)
        config_path == ConfigPath(env.config_dir.v.path)
        mkdir == [op |-> "create_dir_all", path |-> config_dir]
        config_json == Ser_Config(self)
        write == [op |-> "write_file", path |-> config_path, content |-> config_json]
    IN  IF env.create_dir_all.kind = "Err"
        THEN [ret |-> Err(CreateDirError(env.create_dir_all.err)),
              lines |-> <<Logger_log(<<Lit("Failed to create config directory: "),
                                       ErrPiece(env.create_dir_all.err)>>)>>,
              fcalls |-> <<mkdir>>, files |-> fs]
        ELSE IF ~env.config_dir.v.utf8
        THEN [ret |-> Err(Config("ConfigPathInvalidError")), lines |-> <<>>,
              fcalls |-> <<mkdir>>, files |-> fs]
        ELSE IF env.write_file.kind = "Err"
        THEN [ret |-> Err(WriteError(env.write_file.err)), lines |-> <<>>,
              fcalls |-> <<mkdir, write>>, files |-> fs]
        ELSE [ret |-> Ok("()"),
              lines |-> <<Logger_log(SavingMessage(config_path, config_json))>>,
              fcalls |-> <<mkdir, write>>,
              files |-> [q \in DOMAIN fs \cup {config_path} |->
                            IF q = config_path THEN config_json ELSE fs[q]]]

\* Config::load(file_handler).
Config_loadMutantReadsTwice(env, fs) ==
    IF ~env.config_dir.some
    THEN [ret |-> Err(Config("ConfigDirectoryNotFoundError")), lines |-> <<>>,
          fcalls |-> <<>>, files |-> fs]
    ELSE IF ~env.config_dir.v.utf8
    THEN [ret |-> Err(Config("ConfigPathInvalidError")), lines |-> <<>>,
          fcalls |-> <<>>, files |-> fs]
    ELSE
    LET read == [op |-> "read_file", path |-> ConfigPath(env.config_dir.v.path)]
    IN  [ret |-> IF env.read_file.kind = "Err" THEN Err(env.read_file.err)
                 ELSE IF De_Config(env.read_file.val).kind = "Err" THEN Err(Serialization)
                 ELSE Ok(De_Config(env.read_file.val).val),
         lines |-> <<>>, fcalls |-> <<read, read>>, files |-> fs]
Config_load(env, fs) ==
    IF ~env.config_dir.some
    THEN [ret |-> Err(Config("ConfigDirectoryNotFoundError")), lines |-> <<>>,
          fcalls |-> <<>>, files |-> fs]
    ELSE IF ~env.config_dir.v.utf8
    THEN [ret |-> Err(Config("ConfigPathInvalidError")), lines |-> <<>>,
          fcalls |-> <<>>, files |-> fs]
    ELSE
    LET path == ConfigPath(env.config_dir.v.path)
        read == [op |-> "read_file", path |-> path]
    IN  IF env.read_file.kind = "Err"
        THEN [ret |-> Err(env.read_file.err), lines |-> <<>>, fcalls |-> <<read>>,
              files |-> fs]
        ELSE IF De_Config(env.read_file.val).kind = "Err"
        THEN [ret |-> Err(Serialization), lines |-> <<>>, fcalls |-> <<read>>,
              files |-> fs]
        ELSE [ret |-> Ok(De_Config(env.read_file.val).val), lines |-> <<>>,
              fcalls |-> <<read>>, files |-> fs]

(***************************************************************************)
(* Inputs.  Response texts: short and long ASCII, and texts whose byte 200 *)
(* is the end of, or inside, a two-byte character (233 is U+00E9).         *)
(***************************************************************************)
GarbageTexts ==
    { <<Run(120, 5)>>,                            \* 5 bytes of ASCII
      <<Run(120, 198), Run(233, 1)>>,             \* 200 bytes, 199 characters
      <<Run(120, 198), Run(233, 1), Run(122, 1)>>,\* 201 bytes, byte 200 ends U+00E9
      <<Run(120, 150), Run(121, 51)>>,            \* 201 bytes of ASCII
      <<Run(233, 150)>>,                          \* 300 bytes, 150 characters
      <<Run(120, 199), Run(233, 1)>> }            \* 201 bytes, byte 200 is inside U+00E9

\* The text of a JSON document: n bytes of ASCII (documents are told apart by
\* `doc`; of the text only its bytes matter, to the snippet).
DocText(n) == <<Run(32, 1), Run(123, n - 1)>>

GarbageBodies == {[raw |-> r, doc |-> NotJson] : r \in GarbageTexts}
DocBodies(docs) == {[raw |-> DocText(40), doc |-> d] : d \in docs}
LongDocBodies(docs) == {[raw |-> DocText(260), doc |-> d] : d \in docs}

TransportErrors == {Network, InvalidReqwestHeaderValue}

\* Transport results: an error, or a body.
Results(bodies) == {Err(e) : e \in TransportErrors} \cup {Ok(b) : b \in bodies}

\* Create-user entries: the two fixtures of the tests, another error type, an
\* object carrying both keys, and an object that is neither variant.
CuSuccess == JObj(<<Member("success", JObj(<<Member("username", JStr("testusername"))>>))>>)
CuError(type, address, description) ==
    JObj(<<Member("error", JObj(<<Member("type", JNum(type)),
                                  Member("address", JStr(address)),
                                  Member("description", JStr(description))>>))>>)
CuBoth ==
    JObj(<<Member("error", JObj(<<Member("type", JNum(101)), Member("address", JStr("/")),
                                  Member("description", JStr("link button not pressed"))>>)),
           Member("success", JObj(<<Member("username", JStr("u2"))>>))>>)
CuJunk == JObj(<<Member("foo", JNum(1))>>)

CuEntries ==
    { CuSuccess,
      CuError(101, "/", "link button not pressed"),
      CuError(7, "/lights", "invalid value"),
      CuError(-1, "", ""),
      CuBoth,
      CuJunk }

CuDocs ==
    {JArr(<<>>)} \cup {JArr(<<a>>) : a \in CuEntries}
    \cup {JArr(<<a, b>>) : a \in CuEntries, b \in CuEntries}
    \cup {JArr(<<JArr(<<JObj(<<Member("username", JStr("u2"))>>)>>)>>), JObj(<<>>)}

CuBodies == GarbageBodies \cup DocBodies(CuDocs) \cup LongDocBodies({JObj(<<>>)})

IpAddresses == {"127.0.0.1"}
DeviceNames == {"device"}
Usernames == {"user"}

\* Lights: the two lights of the test fixture, a light whose state leaves `on`
\* out, carries a null and an unknown key, and a light whose sat does not fit u8.
JState(m) == Member("state", JObj(m))
JLight(state, name, type) ==
    JObj(<<JState(state), Member("name", JStr(name)), Member("type", JStr(type))>>)

Light1 ==
    JLight(<<Member("on", JBool(TRUE)), Member("bri", JNum(200)),
             Member("hue", JNum(50000)), Member("sat", JNum(150))>>,
           "Living Room Light", "Extended color light")
Light2 ==
    JLight(<<Member("on", JBool(FALSE)), Member("bri", JNum(100)),
             Member("hue", JNum(30000)), Member("sat", JNum(100))>>,
           "Bedroom Light", "Dimmable light")
LightPlug ==
    JLight(<<Member("bri", JNull), Member("reachable", JBool(TRUE))>>,
           "Plug", "On/Off plug")
LightBadSat == JLight(<<Member("sat", JNum(256))>>, "Strip", "Color light")

\* Keys "1", "2" and "x".
LightKeys == {<<49>>, <<50>>, <<120>>}

LightDocs ==
    {JObj(<<>>), JArr(<<>>)}
    \cup {JObj(<<Member(k, l)>>) : k \in LightKeys, l \in {Light1, Light2, LightPlug, LightBadSat}}
    \cup {JObj(<<Member(<<49>>, Light1), Member(k, l)>>) :
            k \in LightKeys, l \in {Light2, LightPlug, LightBadSat}}

LightBodies == GarbageBodies \cup DocBodies(LightDocs) \cup LongDocBodies({JArr(<<>>)})

\* PUT responses: the two entries of the test fixture and an object that is
\* neither variant.
PutError ==
    JObj(<<Member("error", JObj(<<Member("type", JNum(7)),
                                  Member("address", JStr("/lights/2/state/bri")),
                                  Member("description", JStr("invalid value"))>>))>>)
PutSuccess(key, value) == JObj(<<Member("success", JObj(<<Member(key, value)>>))>>)

PutEntries ==
    { PutError,
      PutSuccess("/lights/2/state/on", JBool(FALSE)),
      CuJunk }

PutDocs ==
    {JArr(<<>>), JObj(<<>>)} \cup {JArr(<<a>>) : a \in PutEntries}
    \cup {JArr(<<a, b>>) : a \in PutEntries, b \in PutEntries}

PutBodies == {[raw |-> <<Run(116, 25)>>, doc |-> NotJson]} \cup DocBodies(PutDocs)

LightIds == {1, 2}

\* The LightStates the PUT is tried with.
PutStates ==
    { LightState_default,
      [LightState_default EXCEPT !.on = Some(TRUE), !.brightness = Some(200)] }

\* Config::save and Config::load: the configs, what dirs::config_dir() answers and
\* the errors the FileHandler reports.
Configs == {Config_new("192.168.1.1", "user"), Config_new("10.0.0.2", "")}

HomeDir == [path |-> "/home/u/.config", utf8 |-> TRUE]
OddDir == [path |-> "/home/\\xff/.config", utf8 |-> FALSE]

FileErrors == {FileHandlerError("PermissionDenied"), UnexpectedResponse(Lit("stub failed"))}

NotCalled == [kind |-> "NotCalled"]

SaveEnvs ==
    {[config_dir |-> None, create_dir_all |-> NotCalled, write_file |-> NotCalled]}
    \cup {[config_dir |-> Some(d), create_dir_all |-> Err(e), write_file |-> NotCalled] :
            d \in {HomeDir}, e \in FileErrors}
    \cup {[config_dir |-> Some(OddDir), create_dir_all |-> Ok("()"),
           write_file |-> NotCalled]}
    \cup {[config_dir |-> Some(HomeDir), create_dir_all |-> Ok("()"), write_file |-> w] :
            w \in {Ok("()")} \cup {Err(e) : e \in FileErrors}}

\* A file that is not a config (the test's fixture) and one that is not JSON.
NotAConfig ==
    JObj(<<Member("not_bridge_ip", JStr("192.168.1.1")), Member("not_username", JStr("user"))>>)

\* What read_file answers: the stored content (a missing file is the handler's
\* NotFound), or what a stub that ignores the store answers.
ReadResults(fs, path) ==
    (IF path \in DOMAIN fs THEN {Ok(fs[path])} ELSE {Err(FileHandlerError("NotFound"))})
    \cup {Ok(NotAConfig), Ok(NotJson), Ok(JObj(<<Member("bridge_ip", JStr("192.168.1.1"))>>))}
    \cup {Err(e) : e \in FileErrors}

LoadEnvs(fs) ==
    {[config_dir |-> None, read_file |-> NotCalled],
     [config_dir |-> Some(OddDir), read_file |-> NotCalled]}
    \cup {[config_dir |-> Some(HomeDir), read_file |-> r] :
            r \in ReadResults(fs, ConfigPath(HomeDir.path))}

\* The LightStates of the round trip: every pattern of set fields, at the ends of
\* each field's type.
Opt(S) == {None} \cup {Some(x) : x \in S}
RtStates ==
    {[on |-> a, brightness |-> b, hue |-> c, saturation |-> d] :
        a \in Opt(BOOLEAN), b \in Opt({0, 254, 65535}), c \in Opt({0, 65535}),
        d \in Opt({0, 255})}

(***************************************************************************)
(* The state machine: one process, one Logger, calls made one after the    *)
(* other.  A panic ends the process.                                       *)
(***************************************************************************)
NoCall == [op |-> "none"]
NoRet == [kind |-> "None"]
RtOff == [pc |-> "off"]

Init ==
    /\ log = <<>>
    /\ mark = 0
    /\ call = NoCall
    /\ reqs = <<>>
    /\ fcalls = <<>>
    /\ files = <<>>
    /\ ret = NoRet
    /\ ncalls = 0
    /\ rt = RtOff

Running == ncalls < MaxCalls /\ ret.kind # "Panic" /\ rt = RtOff

\* What a call leaves behind: `o` is the operation's outcome.
Finish(c, o, rq, fc, fs) ==
    /\ log' = log \o o.lines
    /\ mark' = Len(log)
    /\ call' = c
    /\ reqs' = rq
    /\ fcalls' = fc
    /\ files' = fs
    /\ ret' = o.ret
    /\ ncalls' = ncalls + 1
    /\ UNCHANGED rt

CreateUser ==
    /\ Running
    /\ \E ip \in IpAddresses, dev \in DeviceNames, post \in Results(CuBodies) :
        LET o == async_create_user(ip, dev, post)
        IN  Finish([op |-> "create_user", ip_address |-> ip, device_name |-> dev,
                    transport |-> post], o, o.reqs, <<>>, files)

GetAllLights ==
    /\ Running
    /\ \E ip \in IpAddresses, user \in Usernames, get \in Results(LightBodies) :
        LET o == async_get_all_lights(ip, user, get)
        IN  Finish([op |-> "get_all_lights", ip_address |-> ip, username |-> user,
                    transport |-> get], o, o.reqs, <<>>, files)

SetLightState ==
    /\ Running
    /\ \E ip \in IpAddresses, user \in Usernames, id \in LightIds, st \in PutStates,
          put \in Results(PutBodies) :
        LET o == async_set_light_state(ip, user, id, st, put)
        IN  Finish([op |-> "set_light_state", ip_address |-> ip, username |-> user,
                    light_id |-> id, state |-> st, transport |-> put],
                   o, o.reqs, <<>>, files)

Save ==
    /\ Running
    /\ \E c \in Configs, env \in SaveEnvs :
        LET o == Config_save(c, env, files)
        IN  Finish([op |-> "save", config |-> c, env |-> env], o, <<>>, o.fcalls, o.files)

Load ==
    /\ Running
    /\ \E env \in LoadEnvs(files) :
        LET o == Config_load(env, files)
        IN  Finish([op |-> "load", env |-> env], o, <<>>, o.fcalls, o.files)

Next == CreateUser \/ GetAllLights \/ SetLightState \/ Save \/ Load

Spec == Init /\ [][Next]_vars

(***************************************************************************)
(* The LightState round trip: serde_json::to_string, then from_str.        *)
(***************************************************************************)
RtInit ==
    /\ log = <<>>
    /\ mark = 0
    /\ call = NoCall
    /\ reqs = <<>>
    /\ fcalls = <<>>
    /\ files = <<>>
    /\ ret = NoRet
    /\ ncalls = 0
    /\ \E s \in RtStates : rt = [pc |-> "start", state |-> s]

RtSerialize ==
    /\ rt.pc = "start"
    /\ rt' = [pc |-> "serialized", state |-> rt.state, json |-> Ser_LightState(rt.state)]
    /\ UNCHANGED <<log, mark, call, reqs, fcalls, files, ret, ncalls>>

RtDeserialize ==
    /\ rt.pc = "serialized"
    /\ rt' = [pc |-> "deserialized", state |-> rt.state, json |-> rt.json,
              back |-> De_LightState(rt.json)]
    /\ UNCHANGED <<log, mark, call, reqs, fcalls, files, ret, ncalls>>

RtNext == RtSerialize \/ RtDeserialize

SpecLightState == RtInit /\ [][RtNext]_vars

(***************************************************************************)
(* huelight-cli main: one run of the process per command.  `call` holds    *)
(* the process: the command line, where main stands (pc) and the locals    *)
(* it has bound.  The file system and the bridge answer through the same   *)
(* collaborator results as above; reqs and fcalls collect the client and   *)
(* FileHandler calls of the run, in order.                                 *)
(***************************************************************************)
\* enum CLIError
InvalidCommandError == [cli |-> "InvalidCommandError"]
HueLightCoreError(e) == [cli |-> "HueLightCoreError", core |-> e]
ConfigNotLoaded == [cli |-> "ConfigNotLoaded"]

LightNotFound == [kind |-> "LightNotFound"]

\* str::parse::<u8/u16/u32>() of an argument (a text of code points): an optional
\* '+', then one or more digits, the value within the type.  (Every number of up
\* to nine digits fits u32; longer arguments are not among the inputs.)
ParseUnsigned(k, ty) ==
    LET d == IF k # <<>> /\ k[1] = 43 THEN Tail(k) ELSE k
    IN  IF /\ d # <<>> /\ Len(d) <= 9
           /\ \A i \in 1..Len(d) : IsDigit(d[i])
           /\ (ty = "u32" \/ IsT(ty, JNum(DecValue(d))))
        THEN Ok(DecValue(d))
        ELSE Err("ParseIntError")

\* fn parse_light_id: .parse::<u32>().expect(..)
parse_light_id(light_cmd) == ParseUnsigned(light_cmd.light_id, "u32")

\* The command lines; the arguments are the texts "1", "2", "7", "x", "200",
\* "256", "300", "+5" and "70000".
CliCommands ==
    LET Light(name) == [sub |-> "light", name |-> name]
        Of(name, id) == Light(name) @@ ("light_id" :> id)
    IN  {[sub |-> "none"], Light("list"), Light("none"), [sub |-> "setup", name |-> "none"]}
        \cup {Of(n, id) : n \in {"on", "off"}, id \in {<<49>>, <<120>>}}
        \cup {Of("toggle", id) : id \in {<<49>>, <<50>>, <<55>>, <<120>>}}
        \cup {Of(n, <<50>>) @@ ("value" :> v) :
                n \in {"brightness", "hue", "saturation"},
                v \in {<<50, 48, 48>>, <<50, 53, 54>>, <<55, 48, 48, 48, 48>>}}
        \cup {Of("hue", <<120>>) @@ ("value" :> <<50, 48, 48>>)}
        \cup {[sub |-> "light", name |-> "set", light_id |-> <<50>>,
               saturation |-> s, brightness |-> b, hue |-> h] :
                s \in {None, Some(<<50, 48, 48>>), Some(<<50, 53, 54>>)},
                b \in {None, Some(<<43, 53>>), Some(<<120>>)},
                h \in {None, Some(<<55, 48, 48, 48, 48>>), Some(<<51, 48, 48>>)}}
        \cup {[sub |-> "light", name |-> "set", light_id |-> <<120>>,
               saturation |-> None, brightness |-> None, hue |-> Some(<<51, 48, 48>>)]}
        \cup {[sub |-> "setup", name |-> "config", ip_address |-> "192.168.1.1",
               username |-> u] : u \in {"user", ""}}

\* What the file system answers to the load: a stored config (complete, or with an
\* empty field), a file that is not JSON, no file.
CliLoadEnvs ==
    {[config_dir |-> None, read_file |-> NotCalled]}
    \cup {[config_dir |-> Some(HomeDir), read_file |-> r] :
            r \in {Ok(Ser_Config(c)) :
                     c \in {Config_new("192.168.1.1", "user"), Config_new("10.0.0.2", ""),
                            Config_new("", "user")}}
                  \cup {Ok(NotJson), Err(FileHandlerError("NotFound"))}}

\* What the bridge answers to the GET and the PUT of a command.
CliLightBodies ==
    DocBodies({JObj(<<Member(<<49>>, Light1), Member(<<50>>, Light2)>>),
               JObj(<<Member(<<50>>, LightPlug)>>),
               JObj(<<>>)})
    \cup {[raw |-> <<Run(120, 5)>>, doc |-> NotJson]}
CliPutBodies ==
    DocBodies({JArr(<<>>), JArr(<<PutError>>),
               JArr(<<PutError, PutSuccess("/lights/2/state/on", JBool(FALSE))>>),
               JArr(<<PutSuccess("/lights/1/state/on", JBool(FALSE))>>),
               JArr(<<PutSuccess("/lights/2/state/bri", JNum(200))>>)})
    \cup {[raw |-> <<Run(116, 25)>>, doc |-> NotJson]}

CliInit ==
    /\ log = <<>>
    /\ mark = 0
    /\ reqs = <<>>
    /\ fcalls = <<>>
    /\ files = <<>>
    /\ ret = NoRet
    /\ ncalls = 0
    /\ rt = RtOff
    /\ \E cmd \in CliCommands : call = [op |-> "cli", pc |-> "start", cmd |-> cmd]

\* main returns (or panics): the process is over.  `more` binds what the
\* collaborators answered in this step.
CliEnd(more, r, lines, rq, fc, fs) ==
    /\ call' = [call EXCEPT !.pc = "done"] @@ more
    /\ ret' = r
    /\ log' = log \o lines
    /\ reqs' = reqs \o rq
    /\ fcalls' = fcalls \o fc
    /\ files' = fs
    /\ UNCHANGED <<mark, ncalls, rt>>

\* What an API call's result becomes under .map_err(CLIError::HueLightCoreError)?
\* when it is not Ok.
CliFailure(r) == IF r.kind = "Panic" THEN Panic ELSE Err(HueLightCoreError(r.err))

\* main.rs 156-162: the loaded config is usable when neither field is empty.
ConfigUsableMutantUsernameOnly(c) == ~(c.username = "")
ConfigUsable(c) == ~(c.username = "" \/ c.bridge_ip = "")

\* main.rs 149-168: the config is loaded for every subcommand but setup; a load
\* error leaves through `?`, an incomplete config is ConfigNotLoaded.
CliLoadConfig ==
    /\ call.op = "cli" /\ call.pc = "start"
    /\ IF call.cmd.sub = "none"
       THEN CliEnd(<<>>, Err(ConfigNotLoaded), <<>>, <<>>, <<>>, files)
       ELSE IF call.cmd.sub = "setup"
       THEN /\ call' = [op |-> "cli", pc |-> "loaded", cmd |-> call.cmd,
                        c |-> Config_new("", "")]
            /\ UNCHANGED <<log, mark, reqs, fcalls, files, ret, ncalls, rt>>
       ELSE \E env \in CliLoadEnvs :
            LET o == Config_load(env, files)
            IN  IF o.ret.kind = "Err"
                THEN CliEnd("load" :> env, Err(HueLightCoreError(o.ret.err)), o.lines, <<>>,
                            o.fcalls, o.files)
                ELSE IF ~ConfigUsable(o.ret.val)
                THEN CliEnd("load" :> env, Err(ConfigNotLoaded), o.lines, <<>>, o.fcalls,
                            o.files)
                ELSE /\ call' = [op |-> "cli", pc |-> "loaded", cmd |-> call.cmd,
                                 c |-> o.ret.val, load |-> env]
                     /\ fcalls' = fcalls \o o.fcalls
                     /\ UNCHANGED <<log, mark, reqs, files, ret, ncalls, rt>>

\* light list (main.rs 173-199): one line per light, in the HashMap's iteration
\* order, which is any order.
unwrap_or(o, default) == IF o.some THEN o.v ELSE default
LightLine(id, light) ==
    <<Lit("Light ID: "), Lit(ToString(id)),
      Lit(", On: "), Lit(IF unwrap_or(light.state.on, FALSE) THEN "true" ELSE "false"),
      Lit(", Name: "), Lit(light.name),
      Lit(", Type: "), Lit(light.type),
      Lit(", Brightness: "), Lit(ToString(unwrap_or(light.state.brightness, 0))),
      Lit(", Hue: "), Lit(ToString(unwrap_or(light.state.hue, 0))),
      Lit(", Saturation: "), Lit(ToString(unwrap_or(light.state.saturation, 0)))>>

CliList ==
    /\ call.op = "cli" /\ call.pc = "loaded"
    /\ call.cmd.sub = "light" /\ call.cmd.name \in {"list"}
    /\ \E get \in Results(CliLightBodies) :
        LET o == async_get_all_lights(call.c.bridge_ip, call.c.username, get)
            Orders(S) ==
                {f \in [1..Cardinality(S) -> S] :
                    \A i, j \in 1..Cardinality(S) : f[i] = f[j] => i = j}
        IN  IF o.ret.kind # "Ok"
            THEN CliEnd("get" :> get, CliFailure(o.ret), o.lines, o.reqs, <<>>, files)
            ELSE \E order \in Orders(DOMAIN o.ret.val) :
                    CliEnd("get" :> get, Ok("()"),
                           o.lines \o [i \in 1..Len(order) |->
                                         Logger_log(LightLine(order[i], o.ret.val[order[i]]))],
                           o.reqs, <<>>, files)

\* LightState::with_on / with_brightness / with_hue / with_saturation: the field
\* `name` becomes Some(value).
LightState_withMutantFullBrightness(self, name, value) ==
    [self EXCEPT ![name] = Some(value), !.brightness = Some(254)]
LightState_with(self, name, value) == [self EXCEPT ![name] = Some(value)]

\* One PUT of `state` for the light, its result mapped and passed through `?`;
\* the entries of a parsed response are not looked at.
CliPut(light_id, state) ==
    \E put \in Results(CliPutBodies) :
        LET o == async_set_light_state(call.c.bridge_ip, call.c.username, light_id,
                                       state, put)
        IN  CliEnd("put" :> put,
                   IF o.ret.kind = "Ok" THEN Ok("()") ELSE CliFailure(o.ret),
                   o.lines, o.reqs, <<>>, files)

\* light on / light off (main.rs 200-229).
CliSwitch ==
    /\ call.op = "cli" /\ call.pc = "loaded"
    /\ call.cmd.sub = "light" /\ call.cmd.name \in {"on", "off"}
    /\ LET light_id == parse_light_id(call.cmd)
       IN  IF light_id.kind = "Err"
           THEN CliEnd(<<>>, Panic, <<>>, <<>>, <<>>, files)
           ELSE CliPut(light_id.val,
                       LightState_with(LightState_default, "on", call.cmd.name = "on"))

\* HashMap::get
HashMap_getMutantAnyLight(map, key) ==
    IF key \in DOMAIN map THEN Some(map[key])
    ELSE IF DOMAIN map = {} THEN None
    ELSE Some(map[CHOOSE k \in DOMAIN map : TRUE])
HashMap_get(map, key) == IF key \in DOMAIN map THEN Some(map[key]) ELSE None

\* light toggle (main.rs 230-278), up to the answer of the GET.
CliToggleGet ==
    /\ call.op = "cli" /\ call.pc = "loaded"
    /\ call.cmd.sub = "light" /\ call.cmd.name \in {"toggle"}
    /\ LET light_id == parse_light_id(call.cmd)
       IN  IF light_id.kind = "Err"
           THEN CliEnd(<<>>, Panic, <<>>, <<>>, <<>>, files)
           ELSE \E get \in Results(CliLightBodies) :
                LET o == async_get_all_lights(call.c.bridge_ip, call.c.username, get)
                IN  IF o.ret.kind # "Ok"
                    THEN CliEnd("get" :> get, CliFailure(o.ret), o.lines, o.reqs, <<>>,
                                files)
                    ELSE IF ~HashMap_get(o.ret.val, light_id.val).some
                    THEN CliEnd("get" :> get, Err(HueLightCoreError(Bridge(LightNotFound))),
                                o.lines, o.reqs, <<>>, files)
                    ELSE /\ call' = [op |-> "cli", pc |-> "toggle_put", cmd |-> call.cmd,
                                     c |-> call.c, load |-> call.load, get |-> get,
                                     light_id |-> light_id.val,
                                     light |-> HashMap_get(o.ret.val, light_id.val).v]
                         /\ log' = log \o o.lines
                         /\ reqs' = reqs \o o.reqs
                         /\ UNCHANGED <<mark, fcalls, files, ret, ncalls, rt>>

\* light toggle, from the PUT on.
ToggleSucceededMutantFirstOnly(response, success_str) ==
    /\ response # <<>>
    /\ response[1].variant = "Success" /\ success_str \in DOMAIN response[1].success
ToggleSucceeded(response, success_str) ==
    \E i \in DOMAIN response :
        response[i].variant = "Success" /\ success_str \in DOMAIN response[i].success

CliTogglePut ==
    /\ call.op = "cli" /\ call.pc = "toggle_put"
    /\ \E put \in Results(CliPutBodies) :
        LET new_state == ~unwrap_or(call.light.state.on, FALSE)
            light_state == LightState_with(LightState_default, "on", new_state)
            o == async_set_light_state(call.c.bridge_ip, call.c.username, call.light_id,
                                       light_state, put)
            success_str == "/lights/" \o ToString(call.light_id) \o "/state/on"
            message ==
                IF ~ToggleSucceeded(o.ret.val, success_str)
                THEN <<Lit("Failed to toggle light "), Lit(ToString(call.light_id)), Lit("!")>>
                ELSE <<Lit("Successfully toggled the light "), Lit(ToString(call.light_id)),
                       Lit("!")>>
        IN  IF o.ret.kind # "Ok"
            THEN CliEnd("put" :> put, CliFailure(o.ret), o.lines, o.reqs, <<>>, files)
            ELSE CliEnd("put" :> put, Ok("()"), o.lines \o <<Logger_log(message)>>,
                        o.reqs, <<>>, files)

\* light brightness / hue / saturation (main.rs 279-353): both arguments are
\* parsed with expect, the light id first.
CliSetValue ==
    /\ call.op = "cli" /\ call.pc = "loaded"
    /\ call.cmd.sub = "light" /\ call.cmd.name \in {"brightness", "hue", "saturation"}
    /\ LET light_id == parse_light_id(call.cmd)
           value == ParseUnsigned(call.cmd.value,
                                  IF call.cmd.name = "hue" THEN "u16" ELSE "u8")
       IN  IF light_id.kind = "Err" \/ value.kind = "Err"
           THEN CliEnd(<<>>, Panic, <<>>, <<>>, <<>>, files)
           ELSE CliPut(light_id.val,
                       LightState_with(LightState_default, call.cmd.name, value.val))

\* light set (main.rs 354-416): an option that is absent or does not parse is
\* left out; the PUT is made when at least one option is there.
ParseOptionMutantAllU8(o, ty) ==
    IF o.some THEN ParseUnsigned(o.v, "u8") ELSE Err("ArgNotProvided")
ParseOption(o, ty) ==
    IF o.some THEN ParseUnsigned(o.v, ty) ELSE Err("ArgNotProvided")

CliSet ==
    /\ call.op = "cli" /\ call.pc = "loaded"
    /\ call.cmd.sub = "light" /\ call.cmd.name \in {"set"}
    /\ LET WithOption(self, name, parsed) ==
               IF parsed.kind = "Ok" THEN LightState_with(self, name, parsed.val) ELSE self
           light_id == parse_light_id(call.cmd)
           saturation == ParseOption(call.cmd.saturation, "u8")
           brightness == ParseOption(call.cmd.brightness, "u8")
           hue == ParseOption(call.cmd.hue, "u16")
           l_state == WithOption(WithOption(WithOption(LightState_default,
                                     "saturation", saturation),
                                     "brightness", brightness), "hue", hue)
           action_msg_is_empty ==
               saturation.kind = "Err" /\ brightness.kind = "Err" /\ hue.kind = "Err"
       IN  IF light_id.kind = "Err"
           THEN CliEnd(<<>>, Panic, <<>>, <<>>, <<>>, files)
           ELSE IF action_msg_is_empty
           THEN CliEnd(<<>>, Ok("()"), <<>>, <<>>, <<>>, files)
           ELSE CliPut(light_id.val, l_state)

\* setup config (main.rs 420-443): two lines, then Config::save.
CliSetupConfig ==
    /\ call.op = "cli" /\ call.pc = "loaded"
    /\ call.cmd.sub = "setup" /\ call.cmd.name = "config"
    /\ \E env \in SaveEnvs :
        LET o == Config_save(Config_new(call.cmd.ip_address, call.cmd.username), env, files)
            lines == <<Logger_log(<<Lit("Setting up configuration...")>>),
                       Logger_log(<<Lit("IP Address: "), Lit(call.cmd.ip_address),
                                    Lit(", Username: "), Lit(call.cmd.username)>>)>>
        IN  CliEnd("save" :> env,
                   IF o.ret.kind = "Ok" THEN Ok("()") ELSE Err(HueLightCoreError(o.ret.err)),
                   lines \o o.lines, <<>>, o.fcalls, o.files)

\* Any other subcommand (main.rs 417, 444).
CliInvalid ==
    /\ call.op = "cli" /\ call.pc = "loaded"
    /\ call.cmd.name = "none"
    /\ CliEnd(<<>>, Err(InvalidCommandError), <<>>, <<>>, <<>>, files)

CliNext ==
    \/ CliLoadConfig
    \/ CliList
    \/ CliSwitch
    \/ CliToggleGet
    \/ CliTogglePut
    \/ CliSetValue
    \/ CliSet
    \/ CliSetupConfig
    \/ CliInvalid

SpecCli == CliInit /\ [][CliNext]_vars

(***************************************************************************)
(* Vocabulary of the properties.                                           *)
(***************************************************************************)
\* The entries the last call pushed onto the log.
NewLines == SubSeq(log, mark + 1, Len(log))
\* Entry `entry` contains piece `piece`.
HasPiece(entry, piece) == \E i \in 1..Len(entry) : entry[i] = piece
\* Text a is a prefix of text b.
IsPrefix(a, b) ==
    \/ a = <<>>
    \/ /\ Len(a) <= Len(b)
       /\ \A i \in 1..(Len(a) - 1) : a[i] = b[i]
       /\ a[Len(a)].c = b[Len(a)].c
       /\ a[Len(a)].n <= b[Len(a)].n

\* The last call was op, and the transport answered it with a body.
Answered(op) == call.op = op /\ call.transport.kind = "Ok"
Body == call.transport.val

(***************************************************************************)
(* C1.  When the body parses as a create-user array whose first entry is a *)
(* Success entry with username U, async_create_user returns Ok with a User *)
(* whose username is U and whose devicetype is absent, and the call has    *)
(* logged a line containing U.                                             *)
(***************************************************************************)
C1_FirstIsSuccess ==
    /\ Answered("create_user")
    /\ De_CreateUserResponse(Body.doc).kind = "Ok"
    /\ Len(Body.doc.a) >= 1
    /\ De_CreateUserEntry(Body.doc.a[1]).val.variant = "Success"

C1_SuccessReturnsUser ==
    C1_FirstIsSuccess =>
        LET U == De_CreateUserEntry(Body.doc.a[1]).val.success.username
        IN  /\ ret.kind = "Ok"
            /\ ret.val.username = Some(U)
            /\ ret.val.devicetype = None
            /\ \E i \in 1..Len(NewLines) : HasPiece(NewLines[i], Lit(U))

C1_Witness ==
    /\ C1_FirstIsSuccess
    /\ Body.doc = JArr(<<CuSuccess>>)
    /\ ret.kind = "Ok"
    /\ ret.val.username = Some("testusername")

(***************************************************************************)
(* C2.  When the first entry of the create-user response is an Error entry *)
(* of type T, async_create_user never returns Ok: it returns               *)
(* Bridge(LinkButtonNotPressed) exactly when T = 101, and otherwise        *)
(* Bridge(Other{code, message}) with code the decimal form of T and        *)
(* message the entry's description.                                        *)
(***************************************************************************)
C2_FirstIsError ==
    /\ Answered("create_user")
    /\ De_CreateUserResponse(Body.doc).kind = "Ok"
    /\ Len(Body.doc.a) >= 1
    /\ De_CreateUserEntry(Body.doc.a[1]).val.variant = "Error"

C2_ErrorClassified ==
    C2_FirstIsError =>
        LET error == Field(Body.doc.a[1], "error")
            T == Field(error, "type").n
        IN  /\ ret.kind = "Err"
            /\ ret.err.e = "Bridge"
            /\ (ret.err.bridge = LinkButtonNotPressed <=> T = 101)
            /\ T # 101 =>
                /\ ret.err.bridge.kind = "Other"
                /\ ret.err.bridge.code = ToString(T)
                /\ ret.err.bridge.message = Field(error, "description").s

C2_Witness ==
    /\ C2_FirstIsError
    /\ Field(Field(Body.doc.a[1], "error"), "type").n = 7
    /\ ret = Err(Bridge(Other("7", "invalid value")))

(***************************************************************************)
(* C3.  As claimed: when the create-user response body is an empty array   *)
(* or is not parseable, createUser returns the UnexpectedResponse error    *)
(* carrying a snippet of at most 200 characters of the raw body, and a     *)
(* message is logged before the error is returned.                         *)
(***************************************************************************)
FixedMessage ==
    "User could not be created. The Hue Bridge returned an unrecognized JSON format."

C3_EmptyArray == Answered("create_user") /\ Body.doc = JArr(<<>>)
C3_Unparseable ==
    Answered("create_user") /\ De_CreateUserResponse(Body.doc).kind = "Err"

\* piece is a snippet of text: a prefix of it, given as raw text.
C3_IsSnippet(piece, text) ==
    /\ DOMAIN piece = {"txt"}
    /\ IsPrefix(piece.txt, text)
    /\ CharLen(piece.txt) <= SnippetLimit

C3_NotJson == Answered("create_user") /\ Body.doc = NotJson

C3_AsClaimed ==
    (C3_EmptyArray \/ C3_NotJson) =>
        /\ ret.kind = "Err"
        /\ ret.err.e = "UnexpectedResponse"
        /\ C3_IsSnippet(ret.err.msg, Body.raw)
        /\ Len(NewLines) >= 1

(***************************************************************************)
(* C3, amended.  An empty array yields UnexpectedResponse carrying the     *)
(* fixed message "User could not be created. ..." (not a snippet of the    *)
(* body), after logging that message.  A body that does not parse as an    *)
(* array of create-user entries never yields UnexpectedResponse: when byte *)
(* min(len, 200) of the body is a character boundary the call returns the  *)
(* Serialization error after logging exactly one message, which carries    *)
(* the first min(len, 200) bytes of the body (at most 200 characters);     *)
(* otherwise the call panics and logs nothing.                             *)
(***************************************************************************)
C3_Amended ==
    /\ C3_EmptyArray =>
        /\ ret = Err(UnexpectedResponse(Lit(FixedMessage)))
        /\ NewLines = <<<<Lit(FixedMessage), Lit("\n")>>>>
    /\ C3_Unparseable =>
        LET cut == Min(ByteLen(Body.raw), SnippetLimit)
        IN  IF IsCharBoundary(Body.raw, cut)
            THEN /\ ret = Err(Serialization)
                 /\ Len(NewLines) = 1
                 /\ \E i \in 1..Len(NewLines[1]) :
                        /\ C3_IsSnippet(NewLines[1][i], Body.raw)
                        /\ ByteLen(NewLines[1][i].txt) = cut
            ELSE ret = Panic /\ NewLines = <<>>

C3_Witness ==
    /\ C3_Unparseable
    /\ Body.doc = NotJson
    /\ ByteLen(Body.raw) > SnippetLimit
    /\ ret = Err(Serialization)
    /\ Len(NewLines) = 1

(***************************************************************************)
(* C4.  The outcome of createUser depends only on the first entry: for a   *)
(* response array of two or more entries, the returned value and the       *)
(* logged lines are those of the one-element array holding its first       *)
(* entry.                                                                  *)
(***************************************************************************)
C4_TwoOrMore ==
    /\ Answered("create_user")
    /\ De_CreateUserResponse(Body.doc).kind = "Ok"
    /\ Len(Body.doc.a) >= 2

\* The outcome for the one-element array, read off that entry alone.
C4_OutcomeOfEntry(entry) ==
    IF entry.variant = "Success"
    THEN [ret |-> Ok([devicetype |-> None, username |-> Some(entry.success.username)]),
          lines |-> <<<<Lit("User created successfully! Username: "),
                        Lit(entry.success.username), Lit("\n")>>>>]
    ELSE [ret |-> Err(Bridge(IF entry.error.type = 101 THEN LinkButtonNotPressed
                             ELSE Other(ToString(entry.error.type),
                                        entry.error.description))),
          lines |-> <<<<Lit("Error creating user: "), Lit(ToString(entry.error.type)),
                        Lit(" - "), Lit(entry.error.address), Lit(" - "),
                        Lit(entry.error.description), Lit("\n")>>>>]

C4_FirstEntryDecides ==
    C4_TwoOrMore =>
        LET one == async_create_user(call.ip_address, call.device_name,
                       Ok([raw |-> Body.raw, doc |-> JArr(<<Body.doc.a[1]>>)]))
            first == De_CreateUserEntry(Body.doc.a[1]).val
        IN  /\ ret = C4_OutcomeOfEntry(first).ret
            /\ NewLines = C4_OutcomeOfEntry(first).lines
            /\ one.ret = C4_OutcomeOfEntry(first).ret
            /\ one.lines = C4_OutcomeOfEntry(first).lines

\* [Error, Success] has yielded the error.
C4_Witness ==
    /\ C4_TwoOrMore
    /\ Body.doc = JArr(<<CuError(101, "/", "link button not pressed"), CuSuccess>>)
    /\ ret = Err(Bridge(LinkButtonNotPressed))

(***************************************************************************)
(* C5.  When the PUT response parses as an array of n entries,             *)
(* async_set_light_state returns Ok with exactly those n entries in the    *)
(* order received, for every mix of Success and Error entries; an Error    *)
(* entry never turns the result into an Err.                               *)
(***************************************************************************)
C5_ParsesAsEntries ==
    /\ Answered("set_light_state")
    /\ Body.doc.t = "arr"
    /\ \A i \in 1..Len(Body.doc.a) : De_HueResponseEntry(Body.doc.a[i]).kind = "Ok"

\* The entry `e` is what the JSON element `j` says.
C5_SameEntry(e, j) ==
    IF KeyIdx(j, "error") # {}
    THEN /\ e.variant = "Error"
         /\ e.error.type = Field(Field(j, "error"), "type").n
         /\ e.error.address = Field(Field(j, "error"), "address").s
         /\ e.error.description = Field(Field(j, "error"), "description").s
    ELSE /\ e.variant = "Success"
         /\ DOMAIN e.success = {Field(j, "success").m[i].k :
                                    i \in 1..Len(Field(j, "success").m)}
         /\ \A k \in DOMAIN e.success : e.success[k] = Field(Field(j, "success"), k)

C5_WholeArrayReturned ==
    C5_ParsesAsEntries =>
        /\ ret.kind = "Ok"
        /\ DOMAIN ret.val = 1..Len(Body.doc.a)
        /\ \A i \in 1..Len(Body.doc.a) : C5_SameEntry(ret.val[i], Body.doc.a[i])

\* [Error, Success] has come back as two entries, the error first.
C5_Witness ==
    /\ C5_ParsesAsEntries
    /\ Body.doc = JArr(<<PutError, PutSuccess("/lights/2/state/on", JBool(FALSE))>>)
    /\ ret.kind = "Ok"
    /\ DOMAIN ret.val = 1..2
    /\ ret.val[1].variant = "Error"
    /\ ret.val[2].variant = "Success"

(***************************************************************************)
(* C6.  As claimed: for createUser, getAllLights and setLightState, every  *)
(* parse failure and every bridge-reported error that the operation        *)
(* returns as an error is preceded, within the same call, by at least one  *)
(* message appended to the log.                                            *)
(***************************************************************************)
C6_ReturnsParseOrBridgeError ==
    /\ call.op \in {"create_user", "get_all_lights", "set_light_state"}
    /\ call.transport.kind = "Ok"
    /\ ret.kind = "Err"
    /\ ret.err.e \in {"Serialization", "Bridge", "UnexpectedResponse"}

C6_LoggedBeforeReturned == C6_ReturnsParseOrBridgeError => Len(NewLines) >= 1

(***************************************************************************)
(* C7.  As claimed: when the body returned for GET lights does not parse   *)
(* as a LightId-to-Light mapping, async_get_all_lights returns the         *)
(* Serialization error, and before returning it logs exactly one message   *)
(* that contains the first min(length, 200) characters of the raw body.    *)
(***************************************************************************)
RECURSIVE C7_FirstChars(_, _)
C7_FirstChars(s, n) ==
    IF n = 0 \/ s = <<>> THEN <<>>
    ELSE IF Head(s).n <= n THEN <<Head(s)>> \o C7_FirstChars(Tail(s), n - Head(s).n)
    ELSE <<Run(Head(s).c, n)>>

C7_ParseFails == Answered("get_all_lights") /\ De_LightResponse(Body.doc).kind = "Err"

C7_SerializationAndSnippet ==
    C7_ParseFails =>
        /\ ret = Err(Serialization)
        /\ Len(NewLines) = 1
        /\ HasPiece(NewLines[1],
                    Txt(C7_FirstChars(Body.raw, Min(CharLen(Body.raw), SnippetLimit))))

(***************************************************************************)
(* C8.  When the body returned for GET lights parses, async_get_all_lights *)
(* returns a mapping whose key set is exactly the set of light ids in the  *)
(* body, each Light equal field for field (on, brightness, hue,            *)
(* saturation, name, type) to the body's object for that id (the last one, *)
(* when the body repeats an id).                                           *)
(***************************************************************************)
C8_Parses == Answered("get_all_lights") /\ De_LightResponse(Body.doc).kind = "Ok"

C8_Ids == {DecValue(Body.doc.m[i].k) : i \in 1..Len(Body.doc.m)}

C8_ObjectFor(id) ==
    Body.doc.m[CHOOSE i \in 1..Len(Body.doc.m) :
                  /\ DecValue(Body.doc.m[i].k) = id
                  /\ \A j \in (i + 1)..Len(Body.doc.m) : DecValue(Body.doc.m[j].k) # id].v

\* The optional field `opt` is what the state object says under key k.
C8_FieldIs(opt, state, k) ==
    IF KeyIdx(state, k) = {} \/ Field(state, k).t = "null"
    THEN ~opt.some
    ELSE opt.some /\ opt.v = Scalar(Field(state, k))

C8_SameLight(light, j) ==
    /\ light.name = Field(j, "name").s
    /\ light.type = Field(j, "type").s
    /\ C8_FieldIs(light.state.on, Field(j, "state"), "on")
    /\ C8_FieldIs(light.state.brightness, Field(j, "state"), "bri")
    /\ C8_FieldIs(light.state.hue, Field(j, "state"), "hue")
    /\ C8_FieldIs(light.state.saturation, Field(j, "state"), "sat")

C8_MappingIsBody ==
    C8_Parses =>
        /\ ret.kind = "Ok"
        /\ DOMAIN ret.val = C8_Ids
        /\ \A id \in C8_Ids : C8_SameLight(ret.val[id], C8_ObjectFor(id))

\* The body gives light 1 twice; the mapping holds the second object.
C8_Witness ==
    /\ C8_Parses
    /\ Body.doc = JObj(<<Member(<<49>>, Light1), Member(<<49>>, Light2)>>)
    /\ DOMAIN ret.val = {1}
    /\ ret.val[1].name = "Bedroom Light"

(***************************************************************************)
(* C9.  For every LightState, the serialized request body contains the key *)
(* on, bri, hue or sat exactly when the corresponding field is set, never  *)
(* with a null value; and deserializing the serialized form of a           *)
(* LightState with at least one field set yields a LightState with the     *)
(* same fields present and equal values.                                   *)
(***************************************************************************)
C9_AnySet(state) ==
    state.on.some \/ state.brightness.some \/ state.hue.some \/ state.saturation.some

C9_PatchAndRoundTrip ==
    /\ rt.pc \in {"serialized", "deserialized"} =>
        /\ KeyIdx(rt.json, "on") # {} <=> rt.state.on.some
        /\ KeyIdx(rt.json, "bri") # {} <=> rt.state.brightness.some
        /\ KeyIdx(rt.json, "hue") # {} <=> rt.state.hue.some
        /\ KeyIdx(rt.json, "sat") # {} <=> rt.state.saturation.some
        /\ \A i \in 1..Len(rt.json.m) :
            /\ rt.json.m[i].k \in {"on", "bri", "hue", "sat"}
            /\ rt.json.m[i].v.t # "null"
    /\ rt.pc = "deserialized" /\ C9_AnySet(rt.state) =>
        /\ rt.back.kind = "Ok"
        /\ rt.back.val = rt.state

C9_Witness ==
    /\ rt.pc = "deserialized"
    /\ rt.state.brightness.some /\ rt.state.brightness.v = 254
    /\ ~rt.state.on.some /\ ~rt.state.hue.some /\ ~rt.state.saturation.some
    /\ rt.json = JObj(<<Member("bri", JNum(254))>>)
    /\ rt.back = Ok(rt.state)

(***************************************************************************)
(* C10.  If the injected create_dir_all fails with any error, Config::save *)
(* returns Config(ConfigDirectoryCreateError), write_file is never invoked *)
(* during that call, and the "Saving config to" line is not logged.        *)
(***************************************************************************)
C10_CreateDirFails == call.op = "save" /\ call.env.create_dir_all.kind = "Err"

C10_CreateDirFailureStopsSave ==
    C10_CreateDirFails =>
        /\ ret = Err(Config("ConfigDirectoryCreateError"))
        /\ \A i \in 1..Len(fcalls) : fcalls[i].op # "write_file"
        /\ \A i \in 1..Len(NewLines) : ~HasPiece(NewLines[i], Lit("Saving config to "))

C10_Witness ==
    /\ C10_CreateDirFails
    /\ call.env.create_dir_all.err = FileHandlerError("PermissionDenied")
    /\ ret = Err(Config("ConfigDirectoryCreateError"))
    /\ Len(fcalls) = 1 /\ fcalls[1].op = "create_dir_all"
    /\ Len(NewLines) = 1

(***************************************************************************)
(* C11.  If create_dir_all succeeds and the injected write_file fails with *)
(* error E, Config::save returns exactly E (same kind and payload), and    *)
(* the "Saving config to" line is not logged.                              *)
(***************************************************************************)
C11_WriteFails ==
    /\ call.op = "save"
    /\ call.env.create_dir_all.kind = "Ok"
    /\ call.env.write_file.kind = "Err"

C11_WriteErrorUnchanged ==
    C11_WriteFails =>
        /\ ret = Err(call.env.write_file.err)
        /\ \A i \in 1..Len(NewLines) : ~HasPiece(NewLines[i], Lit("Saving config to "))

\* The test's stub: write_file answers a CoreError that is no file-handler error.
C11_Witness ==
    /\ C11_WriteFails
    /\ call.env.write_file.err = UnexpectedResponse(Lit("stub failed"))
    /\ ret = Err(UnexpectedResponse(Lit("stub failed")))
    /\ Len(fcalls) = 2 /\ fcalls[2].op = "write_file"
    /\ NewLines = <<>>

(***************************************************************************)
(* C12.  With a file-access stub that stores what write_file is given and  *)
(* answers read_file from it, a successful save(c) followed by load()      *)
(* returns a config whose bridge_ip and username are those of c; save      *)
(* writes and load reads the same path, <config dir>/huelightcli/          *)
(* config.json.                                                            *)
(***************************************************************************)
\* The step from a successful save to a load that the stub answers from its store.
C12_SaveThenLoad ==
    /\ call.op = "save" /\ ret.kind = "Ok"
    /\ call'.op = "load"
    /\ call'.env.config_dir = call.env.config_dir
    /\ call'.env.read_file.kind = "Ok"
    /\ fcalls[2].path \in DOMAIN files
    /\ call'.env.read_file.val = files[fcalls[2].path]

C12_RoundTripStep ==
    C12_SaveThenLoad =>
        /\ ret'.kind = "Ok"
        /\ ret'.val.bridge_ip = call.config.bridge_ip
        /\ ret'.val.username = call.config.username
        /\ fcalls[2].op = "write_file"
        /\ fcalls' = <<[op |-> "read_file", path |-> fcalls[2].path]>>
        /\ fcalls[2].path = call.env.config_dir.v.path \o "/huelightcli/config.json"

C12_SaveLoadRoundTrip == [][C12_RoundTripStep]_vars

\* A load has returned the config (with an empty username) that the call before
\* it saved: only a successful save writes the store.
C12_Witness ==
    /\ call.op = "load"
    /\ ncalls = 2
    /\ DOMAIN files = {"/home/u/.config/huelightcli/config.json"}
    /\ call.env.read_file = Ok(files["/home/u/.config/huelightcli/config.json"])
    /\ ret = Ok(Config_new("10.0.0.2", ""))

(***************************************************************************)
(* C13.  Config::load returns the Serialization error whenever the file    *)
(* content does not deserialize as a config (for example when the          *)
(* bridge_ip or username key is missing), and when read_file fails with    *)
(* error E it returns E unchanged; in neither case is a Config returned,   *)
(* and load never writes a file or creates a directory.                    *)
(***************************************************************************)
\* The document has exactly one member k, a string.
C13_OneString(d, k) ==
    /\ \E i \in 1..Len(d.m) : d.m[i].k = k /\ d.m[i].v.t = "str"
    /\ \A i, j \in 1..Len(d.m) : d.m[i].k = k /\ d.m[j].k = k => i = j

\* The content reads as { bridge_ip: String, username: String }.
C13_IsConfigContent(d) ==
    \/ d.t = "obj" /\ C13_OneString(d, "bridge_ip") /\ C13_OneString(d, "username")
    \/ d.t = "arr" /\ Len(d.a) = 2 /\ d.a[1].t = "str" /\ d.a[2].t = "str"

C13_ReadAnswered == call.op = "load" /\ call.env.read_file.kind \in {"Ok", "Err"}

C13_LoadFailures ==
    /\ call.op = "load" =>
        /\ \A i \in 1..Len(fcalls) : fcalls[i].op = "read_file"
        /\ ret.kind \in {"Ok", "Err"}
    /\ C13_ReadAnswered =>
        /\ (call.env.read_file.kind = "Ok"
              /\ ~C13_IsConfigContent(call.env.read_file.val)) =>
                ret = Err(Serialization)
        /\ call.env.read_file.kind = "Err" => ret = Err(call.env.read_file.err)

\* The file holds only bridge_ip.
C13_Witness ==
    /\ C13_ReadAnswered
    /\ call.env.read_file = Ok(JObj(<<Member("bridge_ip", JStr("192.168.1.1"))>>))
    /\ ret = Err(Serialization)
    /\ fcalls = <<[op |-> "read_file", path |-> "/home/u/.config/huelightcli/config.json"]>>

(***************************************************************************)
(* C14.  Every failure of Config::save to resolve the config directory, to *)
(* create it, or to serialize the config is returned as one of the         *)
(* ConfigError variants (ConfigDirectoryNotFoundError,                     *)
(* ConfigDirectoryCreateError, ConfigPathInvalidError) and never as        *)
(* another error kind.  (serde_json::to_string cannot fail on a Config of  *)
(* two Strings, so the failures before the write are those of resolving    *)
(* the directory, creating it and reading the path as UTF-8.)              *)
(***************************************************************************)
\* save has failed and the failure is not one write_file reported.
C14_FailsBeforeWrite ==
    /\ call.op = "save"
    /\ ret.kind = "Err"
    /\ call.env.write_file.kind # "Err"

C14_WitnessNotFound ==
    /\ C14_FailsBeforeWrite
    /\ ~call.env.config_dir.some
    /\ ret.err = Config("ConfigDirectoryNotFoundError")
    /\ fcalls = <<>>

(***************************************************************************)
(* C15.  Config::save logs the line "Saving config to <path>: <json>"      *)
(* exactly once if and only if it returns Ok, and only after write_file    *)
(* has returned success; the line contains the full resolved path and the  *)
(* serialized content that was written.                                    *)
(***************************************************************************)
C15_SavingLines == {i \in 1..Len(NewLines) : HasPiece(NewLines[i], Lit("Saving config to "))}

C15_SuccessLine ==
    call.op = "save" =>
        /\ Cardinality(C15_SavingLines) <= 1
        /\ ret.kind = "Ok" <=> Cardinality(C15_SavingLines) = 1
        /\ \A i \in C15_SavingLines :
            /\ call.env.write_file = Ok("()")
            /\ Len(fcalls) = 2 /\ fcalls[2].op = "write_file"
            /\ fcalls[2].path = call.env.config_dir.v.path \o "/huelightcli/config.json"
            /\ fcalls[2].content = Ser_Config(call.config)
            /\ NewLines[i] = <<Lit("Saving config to "), Lit(fcalls[2].path), Lit(": "),
                               DocPiece(fcalls[2].content), Lit("\n")>>

C15_Witness ==
    /\ call.op = "save"
    /\ ret = Ok("()")
    /\ call.config = Config_new("192.168.1.1", "user")
    /\ NewLines = <<<<Lit("Saving config to "),
                      Lit("/home/u/.config/huelightcli/config.json"), Lit(": "),
                      DocPiece(JObj(<<Member("bridge_ip", JStr("192.168.1.1")),
                                      Member("username", JStr("user"))>>)),
                      Lit("\n")>>>>

(***************************************************************************)
(* C16.  Each call of createUser, getAllLights and setLightState invokes   *)
(* the transport exactly once; if that transport call fails, the           *)
(* operation returns that transport error to the caller, without a second  *)
(* transport call and without appending to the log.                        *)
(***************************************************************************)
C16_Method ==
    IF call.op = "create_user" THEN "POST"
    ELSE IF call.op = "get_all_lights" THEN "GET" ELSE "PUT"

C16_IsApiCall == call.op \in {"create_user", "get_all_lights", "set_light_state"}

C16_OneTransportCall ==
    C16_IsApiCall =>
        /\ Len(reqs) = 1
        /\ reqs[1].method = C16_Method
        /\ call.transport.kind = "Err" =>
            /\ ret = Err(call.transport.err)
            /\ NewLines = <<>>

C16_Witness ==
    /\ C16_IsApiCall
    /\ call.op = "set_light_state"
    /\ call.transport = Err(Network)
    /\ ret = Err(Network)
    /\ Len(reqs) = 1 /\ reqs[1].method = "PUT"
    /\ Len(log) = mark

(***************************************************************************)
(* The transport with header injection (crate::client, used at hue_api.rs  *)
(* 5, 82 and 106): get(url, headers), post_json(url, body, headers) and    *)
(* put_json(url, body, headers).  The headers are checked against the HTTP *)
(* grammar, in order, the name of a header before its value, before the    *)
(* request is sent; names and values are byte strings here.                *)
(***************************************************************************)
\* A name is a token of the HTTP grammar; a value takes the tab and every byte
\* that is not a control character.
HeaderName_from_bytesMutantEmptyAccepted(name) ==
    LET IsTokenChar(c) ==
            c \in (48..57) \cup (65..90) \cup (97..122)
                \cup {33, 35, 36, 37, 38, 39, 42, 43, 45, 46, 94, 95, 96, 124, 126}
    IN
    IF \A i \in 1..Len(name) : IsTokenChar(name[i])
    THEN Ok(name) ELSE Err(InvalidReqwestHeaderName)
HeaderName_from_bytes(name) ==
    LET IsTokenChar(c) ==
            c \in (48..57) \cup (65..90) \cup (97..122)
                \cup {33, 35, 36, 37, 38, 39, 42, 43, 45, 46, 94, 95, 96, 124, 126}
    IN
    IF name # <<>> /\ \A i \in 1..Len(name) : IsTokenChar(name[i])
    THEN Ok(name) ELSE Err(InvalidReqwestHeaderName)
HeaderValue_from_str(value) ==
    IF \A i \in 1..Len(value) : value[i] = 9 \/ (value[i] >= 32 /\ value[i] # 127)
    THEN Ok(value) ELSE Err(InvalidReqwestHeaderValue)

\* The header map of a request, or the error of the first header refused.
RECURSIVE HeaderMap(_)
HeaderMap(headers) ==
    IF headers = <<>> THEN Ok(<<>>)
    ELSE LET h == Head(headers)
         IN  IF HeaderName_from_bytes(h.name).kind = "Err"
             THEN HeaderName_from_bytes(h.name)
             ELSE IF HeaderValue_from_str(h.value).kind = "Err"
             THEN HeaderValue_from_str(h.value)
             ELSE LET rest == HeaderMap(Tail(headers))
                  IN  IF rest.kind = "Err" THEN rest ELSE Ok(<<h>> \o rest.val)

\* One request: refused with the header error before anything is sent, or
\* sent and answered by the network.
Client_send(method, url, body, headers, answer) ==
    IF HeaderMap(headers).kind = "Err"
    THEN [ret |-> HeaderMap(headers), reqs |-> <<>>]
    ELSE [ret |-> answer,
          reqs |-> <<[method |-> method, url |-> url, body |-> body,
                      headers |-> HeaderMap(headers).val]>>]

\* Lists of up to two headers.  Names: Content-Type, the empty name, a name
\* with a space.  Values: application/json, a value with the control character
\* 1, a value with a tab.
HeaderLists ==
    LET Names == {<<67, 111, 110, 116, 101, 110, 116, 45, 84, 121, 112, 101>>, <<>>,
                  <<88, 32, 89>>}
        Values == {<<97, 112, 112, 108, 105, 99, 97, 116, 105, 111, 110, 47, 106, 115,
                     111, 110>>, <<97, 1, 98>>, <<97, 9, 98>>}
        Headers == {Header(n, v) : n \in Names, v \in Values}
    IN  {<<>>} \cup {<<h>> : h \in Headers} \cup {<<g, h>> : g, h \in Headers}

\* One call of get, post_json or put_json.
ClientSend ==
    /\ call = NoCall
    /\ \E method \in {"GET", "POST", "PUT"}, headers \in HeaderLists,
          answer \in {Ok("[]"), Err(Network)} :
        LET o == Client_send(method, "http://192.168.1.1/api",
                             IF method = "GET" THEN "" ELSE "{}", headers, answer)
        IN  /\ call' = [op |-> "send", method |-> method, headers |-> headers,
                        answer |-> answer]
            /\ reqs' = reqs \o o.reqs
            /\ ret' = o.ret
    /\ UNCHANGED <<log, mark, fcalls, files, ncalls, rt>>

SpecClient == Init /\ [][ClientSend]_vars

(***************************************************************************)
(* C17.  In every run of a single CLI command, at most two transport       *)
(* calls and at most one config read occur, and the transport calls are    *)
(* sequential (the second is issued only after the first has returned);    *)
(* only toggle issues two, and it issues the GET of all lights before the  *)
(* PUT of the light's state.                                               *)
(***************************************************************************)
C17_ConfigReads == {i \in 1..Len(fcalls) : fcalls[i].op = "read_file"}

C17_InRun ==
    call.op = "cli" =>
        /\ Len(reqs) <= 2
        /\ Cardinality(C17_ConfigReads) <= 1
        /\ Len(reqs) = 2 =>
            /\ call.cmd.sub = "light" /\ call.cmd.name = "toggle"
            /\ reqs[1].method = "GET" /\ reqs[2].method = "PUT"
            \* the GET had been answered, with a mapping, when the PUT was issued
            /\ call.get.kind = "Ok"
            /\ De_LightResponse(call.get.val.doc).kind = "Ok"

\* A step issues at most one transport call, after those issued before it.
C17_Step ==
    /\ Len(reqs') <= Len(reqs) + 1
    /\ SubSeq(reqs', 1, Len(reqs)) = reqs

C17_AtMostTwoSequentialCalls == [][C17_Step]_vars /\ []C17_InRun

C17_Witness ==
    /\ call.op = "cli" /\ call.pc = "done"
    /\ call.cmd = [sub |-> "light", name |-> "toggle", light_id |-> <<50>>]
    /\ Len(reqs) = 2
    /\ reqs[1].method = "GET" /\ reqs[2].method = "PUT"
    /\ Len(fcalls) = 1 /\ fcalls[1].op = "read_file"
    /\ ret = Ok("()")

(***************************************************************************)
(* C18.  In the toggle command, if the requested light ID is absent from   *)
(* the mapping returned by getAllLights, the command fails with            *)
(* Bridge(LightNotFound) and no PUT is issued for any light.  (main         *)
(* returns a CLIError: the core error arrives inside its HueLightCoreError *)
(* variant.)                                                               *)
(***************************************************************************)
\* The toggle command has had a mapping for an answer to its GET.
C18_ToggleGotMapping ==
    /\ call.op = "cli" /\ call.cmd.sub = "light" /\ call.cmd.name = "toggle"
    /\ "get" \in DOMAIN call
    /\ call.get.kind = "Ok"
    /\ De_LightResponse(call.get.val.doc).kind = "Ok"

\* The IDs of the body that was answered, and the ID the command asked for.
C18_MappingIds ==
    {DecValue(call.get.val.doc.m[i].k) : i \in 1..Len(call.get.val.doc.m)}
C18_Requested == DecValue(call.cmd.light_id)

C18_AbsentLightNoPut ==
    (C18_ToggleGotMapping /\ C18_Requested \notin C18_MappingIds) =>
        /\ call.pc = "done"
        /\ ret = Err(HueLightCoreError(Bridge(LightNotFound)))
        /\ \A i \in 1..Len(reqs) : reqs[i].method # "PUT"

\* Light 7 is asked of a bridge that has the lights 1 and 2.
C18_Witness ==
    /\ C18_ToggleGotMapping
    /\ call.cmd.light_id = <<55>>
    /\ C18_MappingIds = {1, 2}
    /\ ret = Err(HueLightCoreError(Bridge(LightNotFound)))
    /\ Len(reqs) = 1 /\ reqs[1].method = "GET"

(***************************************************************************)
(* C19.  No command other than setup issues a transport call unless the    *)
(* config load succeeded with both bridge_ip and username non-empty: with  *)
(* a loaded config in which either field is empty the command fails with   *)
(* ConfigNotLoaded before any network call, and when the load itself fails *)
(* (file missing, unparseable) the command fails with the load's own core  *)
(* error, which is distinct from ConfigNotLoaded.                          *)
(***************************************************************************)
\* The command read its config: what the file system answered.
C19_Loaded == call.op = "cli" /\ "load" \in DOMAIN call
C19_ReadsAsConfig ==
    /\ call.load.config_dir.some
    /\ call.load.read_file.kind = "Ok"
    /\ C13_IsConfigContent(call.load.read_file.val)
C19_String(k) ==
    LET d == call.load.read_file.val
    IN  IF d.t = "obj" THEN d.m[CHOOSE i \in 1..Len(d.m) : d.m[i].k = k].v.s
        ELSE d.a[IF k = "bridge_ip" THEN 1 ELSE 2].s
C19_BothFieldsSet ==
    C19_ReadsAsConfig /\ C19_String("bridge_ip") # "" /\ C19_String("username") # ""

\* The error of a load that fails.
C19_LoadError ==
    IF ~call.load.config_dir.some THEN Config("ConfigDirectoryNotFoundError")
    ELSE IF call.load.read_file.kind = "Err" THEN call.load.read_file.err
    ELSE Serialization

C19_NoCallWithoutConfig ==
    (call.op = "cli" /\ call.cmd.sub # "setup") =>
        /\ reqs # <<>> => C19_Loaded /\ C19_BothFieldsSet
        /\ (C19_Loaded /\ C19_ReadsAsConfig /\ ~C19_BothFieldsSet) =>
              /\ call.pc = "done"
              /\ ret = Err(ConfigNotLoaded)
              /\ reqs = <<>>
        /\ (C19_Loaded /\ ~C19_ReadsAsConfig) =>
              /\ call.pc = "done"
              /\ ret = Err(HueLightCoreError(C19_LoadError))
              /\ ret # Err(ConfigNotLoaded)
              /\ reqs = <<>>

\* The file holds a bridge_ip and an empty username.
C19_Witness ==
    /\ C19_Loaded /\ call.cmd.sub = "light"
    /\ C19_ReadsAsConfig
    /\ C19_String("bridge_ip") = "10.0.0.2" /\ C19_String("username") = ""
    /\ ret = Err(ConfigNotLoaded)
    /\ reqs = <<>>

(***************************************************************************)
(* C20.  Header construction with an empty header name must fail with the  *)
(* invalid-header-name kind before any network call is attempted; a header *)
(* value containing a control character must fail with the                 *)
(* invalid-header-value kind (a reported error, not a process abort).      *)
(* For a list of headers the first header that is refused decides.         *)
(***************************************************************************)
C20_Sent == call.op = "send"
C20_HasControl(value) ==
    \E i \in 1..Len(value) : value[i] # 9 /\ (value[i] < 32 \/ value[i] = 127)
C20_IsToken(name) ==
    /\ name # <<>>
    /\ \A i \in 1..Len(name) :
          name[i] \in (33..126) \ {34, 40, 41, 44, 47, 58, 59, 60, 61, 62, 63, 64,
                                   91, 92, 93, 123, 125}
C20_Refused(h) == ~C20_IsToken(h.name) \/ C20_HasControl(h.value)
\* Header i is the first one of the request that is refused.
C20_FirstRefused(i) ==
    /\ i \in 1..Len(call.headers)
    /\ C20_Refused(call.headers[i])
    /\ \A j \in 1..(i - 1) : ~C20_Refused(call.headers[j])

LockResultMutantUnwrap(poisoned) == IF poisoned THEN "panic" ELSE "guard"
LockResult(poisoned) == "guard"

LoggerInit ==
    /\ log = <<>>
    /\ mark = 0
    /\ reqs = <<>>
    /\ fcalls = <<>>
    /\ files = <<>>
    /\ ret = NoRet
    /\ ncalls = 0
    /\ rt = RtOff
    /\ call = [op |-> "logger", lock |-> "none", poisoned |-> FALSE,
               th |-> [t \in {"t1", "t2"} |->
                         [pc |-> "idle", n |-> 0, doing |-> "none", message |-> <<>>,
                          sent |-> <<>>, lo |-> 0, snap |-> <<>>, hi |-> 0,
                          recovered |-> FALSE, failed |-> FALSE]]]

\* A thread calls log(message) or entries() and takes the lock, which is free.
LoggerAcquire ==
    /\ call.op = "logger" /\ call.lock = "none"
    /\ \E t \in DOMAIN call.th, doing \in {"log", "entries"} :
        /\ call.th[t].pc = "idle" /\ call.th[t].n < MaxOps
        /\ IF LockResult(call.poisoned) = "panic"
           THEN call' = [call EXCEPT !.th[t].pc = "dead", !.th[t].failed = TRUE]
           ELSE call' = [call EXCEPT
                           !.lock = t,
                           !.th[t].pc = "holding",
                           !.th[t].n = @ + 1,
                           !.th[t].doing = doing,
                           !.th[t].message = <<Lit(t), Lit(ToString(call.th[t].n))>>,
                           !.th[t].lo = IF doing = "entries" THEN Len(log) ELSE @,
                           !.th[t].recovered = @ \/ call.poisoned]
    /\ UNCHANGED <<log, mark, reqs, fcalls, files, ret, ncalls, rt>>

\* log: push(message + "\n"), the guard dropped, the call returns.
LoggerPush ==
    /\ call.op = "logger"
    /\ \E t \in DOMAIN call.th :
        /\ call.lock = t /\ call.th[t].doing = "log"
        /\ log' = Append(log, Logger_log(call.th[t].message))
        /\ call' = [call EXCEPT !.lock = "none",
                                !.th[t].pc = "idle",
                                !.th[t].sent = Append(@, call.th[t].message)]
    /\ UNCHANGED <<mark, reqs, fcalls, files, ret, ncalls, rt>>

\* entries: clone() of the Vec, the guard dropped, the call returns the clone.
LoggerClone ==
    /\ call.op = "logger"
    /\ \E t \in DOMAIN call.th :
        /\ call.lock = t /\ call.th[t].doing = "entries"
        /\ call' = [call EXCEPT !.lock = "none",
                                !.th[t].pc = "idle",
                                !.th[t].snap = log,
                                !.th[t].hi = Len(log)]
    /\ UNCHANGED <<log, mark, reqs, fcalls, files, ret, ncalls, rt>>

\* A thread panics while it holds the lock: the unwinding drops the guard and
\* poisons the Mutex.
LoggerPanic ==
    /\ call.op = "logger"
    /\ \E t \in DOMAIN call.th :
        /\ call.lock = t
        /\ call' = [call EXCEPT !.lock = "none", !.poisoned = TRUE, !.th[t].pc = "dead"]
    /\ UNCHANGED <<log, mark, reqs, fcalls, files, ret, ncalls, rt>>

SpecLogger ==
    LoggerInit /\ [][LoggerAcquire \/ LoggerPush \/ LoggerClone \/ LoggerPanic]_vars

(***************************************************************************)
(* C21.  The log sink is append-only: after any sequence of log calls with *)
(* messages m1..mn on one Logger, entries() returns exactly n entries, the *)
(* i-th being mi followed by a newline, in call order; no operation        *)
(* removes, reorders or changes an existing entry, and entries() itself    *)
(* leaves the log unchanged.                                               *)
(***************************************************************************)
\* Thread t is the only one that has called the Logger, and no call is running.
C21_SoleCaller(t) ==
    /\ call.op = "logger" /\ call.lock = "none"
    /\ \A u \in DOMAIN call.th : u # t => call.th[u].n = 0

\* The entries of the messages ms: each followed by a newline, in order.
C21_EntriesOf(ms) == [i \in 1..Len(ms) |-> ms[i] \o <<Lit("\n")>>]

C21_InOrder ==
    call.op = "logger" =>
        /\ \A t \in DOMAIN call.th :
              /\ C21_SoleCaller(t) => log = C21_EntriesOf(call.th[t].sent)
              \* what the last entries() of t returned is the buffer it left
              /\ call.th[t].hi <= Len(log)
              /\ call.th[t].snap = SubSeq(log, 1, call.th[t].hi)
        /\ \A i \in 1..Len(log) : log[i][Len(log[i])] = Lit("\n")

\* A step keeps the entries there are and adds at most one, at the end; the step
\* in which entries() returns adds none.
C21_Step ==
    /\ Len(log') >= Len(log)
    /\ Len(log') <= Len(log) + 1
    /\ SubSeq(log', 1, Len(log)) = log
    /\ \A t \in DOMAIN call.th :
          (call.lock = t /\ call.th[t].doing = "entries" /\ call'.th[t].pc = "idle") =>
              log' = log /\ call'.th[t].snap = log

C21_AppendOnly == []C21_InOrder /\ [][C21_Step]_vars

\* One thread has logged a message and then called entries().
C21_Witness ==
    /\ C21_SoleCaller("t1")
    /\ call.th["t1"].sent = << <<Lit("t1"), Lit("0")>> >>
    /\ call.th["t1"].snap = << <<Lit("t1"), Lit("0"), Lit("\n")>> >>
    /\ log = call.th["t1"].snap

(***************************************************************************)
(* C30.  When several threads call log and entries concurrently on one     *)
(* shared Logger, every logged message ends up in the buffer exactly once  *)
(* (none lost, none duplicated), each entries() call returns a snapshot    *)
(* equal to the buffer at some instant between its start and end, messages *)
(* of one thread appear in that thread's call order, and a thread that     *)
(* panicked while holding the lock does not make later log or entries      *)
(* calls fail.                                                             *)
(***************************************************************************)
\* The places of the buffer that hold message k of thread t.
C30_Places(t, k) == {i \in 1..Len(log) : log[i] = call.th[t].sent[k] \o <<Lit("\n")>>}
C30_Place(t, k) == CHOOSE i \in C30_Places(t, k) : TRUE
\* The log calls that have returned.
C30_Returned ==
    {p \in (DOMAIN call.th) \X (1..MaxOps) : p[2] <= Len(call.th[p[1]].sent)}

C30_SharedLogger ==
    call.op = "logger" =>
        /\ \A p \in C30_Returned : Cardinality(C30_Places(p[1], p[2])) = 1
        /\ Len(log) = Cardinality(C30_Returned)
        /\ \A p, q \in C30_Returned :
              (p[1] = q[1] /\ p[2] < q[2]) => C30_Place(p[1], p[2]) < C30_Place(q[1], q[2])
        \* the snapshot of an entries() call that has returned: the buffer when
        \* it held some length between the one at the start and the one at the end
        /\ \A t \in DOMAIN call.th :
              (call.th[t].pc = "idle" /\ call.th[t].doing = "entries") =>
                  /\ call.th[t].lo <= Len(call.th[t].snap)
                  /\ Len(call.th[t].snap) <= call.th[t].hi
                  /\ call.th[t].hi <= Len(log)
                  /\ call.th[t].snap = SubSeq(log, 1, Len(call.th[t].snap))
        \* no call has failed on the poisoned Mutex, and a thread is dead only
        \* by its own panic
        /\ \A t \in DOMAIN call.th : ~call.th[t].failed
        /\ (\E t \in DOMAIN call.th : call.th[t].pc = "dead") => call.poisoned

\* t1 panicked holding the lock; after that t2 has logged a message and read
\* the entries.
C30_Witness ==
    /\ call.op = "logger" /\ call.poisoned
    /\ call.th["t1"].pc = "dead"
    /\ call.th["t2"].recovered /\ call.th["t2"].pc = "idle"
    /\ call.th["t2"].doing = "entries"
    /\ Len(call.th["t2"].sent) = 1
    /\ call.th["t2"].snap = log
    /\ Len(log) = 1 + Len(call.th["t1"].sent)

(***************************************************************************)
(* C22.  Every User value produced by the core (by with_devicetype, by     *)
(* with_username, and as the result of createUser) has exactly one of      *)
(* devicetype and username populated, never both; its serialized form      *)
(* carries only the key of the populated field.                            *)
(***************************************************************************)
\* The keys of a serialized object.
C22_Keys(d) == {d.m[i].k : i \in 1..Len(d.m)}
C22_ExactlyOne(u) == u.devicetype.some # u.username.some

C22_OneFieldPopulated ==
    call.op = "create_user" =>
        \* the User of the request, as it was serialized into the body
        /\ Len(reqs) = 1
        /\ reqs[1].body.t = "obj" /\ Len(reqs[1].body.m) = 1
        /\ reqs[1].body.m[1] = Member("devicetype", JStr(call.device_name))
        \* the User returned
        /\ ret.kind = "Ok" =>
              /\ C22_ExactlyOne(ret.val)
              /\ ret.val.username.some
              /\ Len(Ser_User(ret.val).m) = 1
              /\ C22_Keys(Ser_User(ret.val)) = {"username"}

C22_Witness ==
    /\ call.op = "create_user"
    /\ ret.kind = "Ok"
    /\ ret.val.username = Some("testusername") /\ ~ret.val.devicetype.some
    /\ C22_Keys(reqs[1].body) = {"devicetype"}

(***************************************************************************)
(* C23.  Every LightState the client can construct, receive from the       *)
(* bridge or send in a request has brightness and saturation within        *)
(* [0,255] and hue within [0,65535]; no value outside these ranges can be  *)
(* held in a LightState or placed in a PUT body.                           *)
(***************************************************************************)
C23_InRange(state) ==
    /\ state.brightness.some => state.brightness.v \in 0..255
    /\ state.saturation.some => state.saturation.v \in 0..255
    /\ state.hue.some => state.hue.v \in 0..65535

\* The members of the serialized state are within the ranges.
C23_BodyInRange(json) ==
    \A i \in 1..Len(json.m) :
        /\ json.m[i].k \in {"bri", "sat"} => json.m[i].v.n \in 0..255
        /\ json.m[i].k = "hue" => json.m[i].v.n \in 0..65535

\* A state that was built, serialized as a PUT body is, and read back as a state
\* of a response is.
C23_WithinRanges ==
    (rt.pc = "deserialized" /\ rt.back.kind = "Ok") =>
        /\ C23_InRange(rt.state)
        /\ C23_BodyInRange(rt.json)
        /\ C23_InRange(rt.back.val)

(***************************************************************************)
(* C24.  When the first entry of the create-user response is an Error      *)
(* entry, async_create_user appends exactly one line to the log,           *)
(* containing that entry's address and description, before it returns.     *)
(***************************************************************************)
\* The error member of the first entry of the body, which reads as an Error entry.
C24_FirstError == Field(Body.doc.a[1], "error")
C24_ErrorFirst ==
    /\ Answered("create_user")
    /\ De_CreateUserResponse(Body.doc).kind = "Ok"
    /\ Body.doc.a # <<>>
    /\ De_CreateUserEntry(Body.doc.a[1]).val.variant = "Error"

C24_ErrorLineLogged ==
    C24_ErrorFirst =>
        /\ ret.kind = "Err"
        /\ Len(log) = mark + 1
        /\ HasPiece(log[Len(log)], Lit(Field(C24_FirstError, "address").s))
        /\ HasPiece(log[Len(log)], Lit(Field(C24_FirstError, "description").s))
        /\ log[Len(log)] =
              <<Lit("Error creating user: "), Lit(ToString(Field(C24_FirstError, "type").n)),
                Lit(" - "), Lit(Field(C24_FirstError, "address").s),
                Lit(" - "), Lit(Field(C24_FirstError, "description").s), Lit("\n")>>

\* Two Error entries: the line is the one of the first.
C24_Witness ==
    /\ C24_ErrorFirst
    /\ Len(Body.doc.a) = 2
    /\ Body.doc.a[2] = CuError(-1, "", "")
    /\ NewLines = << <<Lit("Error creating user: "), Lit("7"), Lit(" - "), Lit("/lights"),
                       Lit(" - "), Lit("invalid value"), Lit("\n")>> >>
    /\ ret = Err(Bridge(Other("7", "invalid value")))

(***************************************************************************)
(* C25.  In the toggle command, when the requested light is present in the *)
(* mapping returned by the GET, the PUT targets that same light ID and     *)
(* carries a LightState whose only set field is on, with value equal to    *)
(* the negation of the on value reported by the GET (a light reported      *)
(* without an on field is treated as off, so on=true is sent).             *)
(***************************************************************************)
\* The state object the body of the GET has for the requested light (the last
\* member with that id), and the on value it reports.
C25_Id == DecValue(call.cmd.light_id)
C25_State ==
    LET m == call.get.val.doc.m
        i == CHOOSE i \in 1..Len(m) :
                /\ DecValue(m[i].k) = C25_Id
                /\ \A j \in (i + 1)..Len(m) : DecValue(m[j].k) # C25_Id
    IN  Field(m[i].v, "state")
C25_ReportedOn ==
    IF KeyIdx(C25_State, "on") = {} \/ Field(C25_State, "on").t = "null" THEN FALSE
    ELSE Field(C25_State, "on").b

C25_LightPresent ==
    /\ call.op = "cli" /\ call.cmd.sub = "light" /\ call.cmd.name = "toggle"
    /\ "get" \in DOMAIN call
    /\ call.get.kind = "Ok"
    /\ De_LightResponse(call.get.val.doc).kind = "Ok"
    /\ \E i \in 1..Len(call.get.val.doc.m) : DecValue(call.get.val.doc.m[i].k) = C25_Id

C25_PutNegatesOn ==
    C25_LightPresent =>
        /\ call.pc \in {"toggle_put", "done"}
        /\ call.pc = "toggle_put" => Len(reqs) = 1
        /\ call.pc = "done" =>
              /\ Len(reqs) = 2
              /\ reqs[2].method = "PUT"
              /\ reqs[2].url = "http://192.168.1.1/api/user/lights/" \o ToString(C25_Id)
                                  \o "/state"
              /\ reqs[2].body = JObj(<<Member("on", JBool(~C25_ReportedOn))>>)

\* The plug, light 2, is reported without an on field: on=true is sent.
C25_Witness ==
    /\ C25_LightPresent /\ call.pc = "done"
    /\ C25_Id = 2
    /\ KeyIdx(C25_State, "on") = {}
    /\ reqs[2].url = "http://192.168.1.1/api/user/lights/2/state"
    /\ reqs[2].body = JObj(<<Member("on", JBool(TRUE))>>)

(***************************************************************************)
(* C26.  After toggle's PUT returns a parsed entry array, the command      *)
(* returns Ok whether or not the bridge accepted the change, and logs      *)
(* 'Successfully toggled the light' if and only if some Success entry of   *)
(* the array contains the key /lights/{id}/state/on for the requested id;  *)
(* otherwise it logs 'Failed to toggle light' (including when the array    *)
(* holds only Error entries or is empty).                                  *)
(***************************************************************************)
C26_PutParsed ==
    /\ call.op = "cli" /\ call.cmd.sub = "light" /\ call.cmd.name = "toggle"
    /\ "put" \in DOMAIN call
    /\ call.put.kind = "Ok"
    /\ De_HueResponse(call.put.val.doc).kind = "Ok"

\* Entry d of the body is a Success entry whose object has the key.
C26_SuccessWith(d, key) ==
    /\ d.t = "obj" /\ KeyIdx(d, "error") = {} /\ KeyIdx(d, "success") # {}
    /\ Field(d, "success").t = "obj"
    /\ \E i \in 1..Len(Field(d, "success").m) : Field(d, "success").m[i].k = key

C26_Accepted ==
    \E i \in 1..Len(call.put.val.doc.a) :
        C26_SuccessWith(call.put.val.doc.a[i],
                        "/lights/" \o ToString(DecValue(call.cmd.light_id)) \o "/state/on")

C26_Line(text) == <<Lit(text), Lit(ToString(DecValue(call.cmd.light_id))), Lit("!"), Lit("\n")>>

C26_MessageTellsOutcome ==
    C26_PutParsed =>
        /\ call.pc = "done"
        /\ ret = Ok("()")
        /\ Len(log) = 1
        /\ C26_Accepted => log[1] = C26_Line("Successfully toggled the light ")
        /\ ~C26_Accepted => log[1] = C26_Line("Failed to toggle light ")

\* The array holds an Error entry and then the Success entry of light 2.
C26_Witness ==
    /\ C26_PutParsed
    /\ call.cmd.light_id = <<50>>
    /\ Len(call.put.val.doc.a) = 2
    /\ call.put.val.doc.a[1] = PutError
    /\ C26_Accepted
    /\ log = << <<Lit("Successfully toggled the light "), Lit("2"), Lit("!"), Lit("\n")>> >>
    /\ ret = Ok("()")

(***************************************************************************)
(* C27.  As claimed: the set command issues a PUT if and only if at least  *)
(* one of saturation, brightness and hue was provided and parsed within    *)
(* its integer range; an argument that fails to parse is treated as not    *)
(* provided (no error is returned for it), the LightState sent has exactly *)
(* the successfully parsed fields set, and when none is usable the command *)
(* returns Ok without any transport call.                                  *)
(* Amended: in a run whose config has loaded, that holds when the light   *)
(* id parses as a u32; when it does not, the command panics before it      *)
(* looks at the options and issues no transport call, whatever they are.   *)
(***************************************************************************)
C27_SetDone ==
    /\ call.op = "cli" /\ call.pc = "done"
    /\ call.cmd.sub = "light" /\ call.cmd.name = "set"
    /\ "load" \in DOMAIN call /\ C19_BothFieldsSet

\* The digits of an argument (after an optional '+') and whether it is a number
\* of at most max.
C27_Digits(text) == IF text # <<>> /\ text[1] = 43 THEN Tail(text) ELSE text
C27_Usable(o, max) ==
    /\ o.some
    /\ C27_Digits(o.v) # <<>>
    /\ \A i \in 1..Len(C27_Digits(o.v)) : C27_Digits(o.v)[i] \in 48..57
    /\ DecValue(C27_Digits(o.v)) <= max
C27_Member(key, o, max) ==
    IF C27_Usable(o, max) THEN <<Member(key, JNum(DecValue(C27_Digits(o.v))))>> ELSE <<>>
\* The body of the fields that are usable, in the order of the struct.
C27_Body ==
    JObj(C27_Member("bri", call.cmd.brightness, 255)
         \o C27_Member("hue", call.cmd.hue, 65535)
         \o C27_Member("sat", call.cmd.saturation, 255))
C27_AnyUsable == C27_Body.m # <<>>
C27_IdParses == \A i \in 1..Len(call.cmd.light_id) : call.cmd.light_id[i] \in 48..57

C27_AsClaimed ==
    C27_SetDone =>
        /\ reqs # <<>> <=> C27_AnyUsable
        /\ reqs # <<>> =>
              /\ Len(reqs) = 1 /\ reqs[1].method = "PUT"
              /\ reqs[1].body = C27_Body
        /\ ~C27_AnyUsable => ret = Ok("()")
        /\ ret.kind # "Panic"

C27_Amended ==
    C27_SetDone =>
        /\ C27_IdParses =>
              /\ reqs # <<>> <=> C27_AnyUsable
              /\ reqs # <<>> =>
                    /\ Len(reqs) = 1 /\ reqs[1].method = "PUT"
                    /\ reqs[1].body = C27_Body
              /\ ~C27_AnyUsable => ret = Ok("()")
              /\ ret.kind # "Panic"
        /\ ~C27_IdParses => ret = Panic /\ reqs = <<>>

\* Saturation 256 and brightness x are left out; hue 300 is sent.
C27_Witness ==
    /\ C27_SetDone
    /\ call.cmd.light_id = <<50>>
    /\ call.cmd.saturation = Some(<<50, 53, 54>>)
    /\ call.cmd.brightness = Some(<<120>>)
    /\ call.cmd.hue = Some(<<51, 48, 48>>)
    /\ Len(reqs) = 1
    /\ reqs[1].body = JObj(<<Member("hue", JNum(300))>>)
    /\ ret = Ok("()")

(***************************************************************************)
(* C28.  The setup config command performs no config read and no transport *)
(* call: it calls save with exactly the given IP address and username, so  *)
(* its outcome is the outcome of save and does not depend on whether a     *)
(* config file already exists, is empty or is unparseable.                 *)
(***************************************************************************)
C28_SetupDone ==
    /\ call.op = "cli" /\ call.pc = "done"
    /\ call.cmd.sub = "setup" /\ call.cmd.name = "config"

\* Every step of save went well for the file system.
C28_SaveGoesWell ==
    /\ call.save.config_dir.some /\ call.save.config_dir.v.utf8
    /\ call.save.create_dir_all.kind = "Ok"
    /\ call.save.write_file.kind = "Ok"

C28_SaveOnly ==
    C28_SetupDone =>
        /\ reqs = <<>>
        /\ "load" \notin DOMAIN call
        /\ \A i \in 1..Len(fcalls) : fcalls[i].op \in {"create_dir_all", "write_file"}
        /\ \A i \in 1..Len(fcalls) :
              fcalls[i].op = "write_file" =>
                  fcalls[i].content =
                      JObj(<<Member("bridge_ip", JStr(call.cmd.ip_address)),
                             Member("username", JStr(call.cmd.username))>>)
        /\ ret = Ok("()") <=> C28_SaveGoesWell
        /\ ~C28_SaveGoesWell => ret.kind = "Err" /\ ret.err.cli = "HueLightCoreError"
        /\ call.save.write_file.kind = "Err" =>
              ret = Err(HueLightCoreError(call.save.write_file.err))

C28_Witness ==
    /\ C28_SetupDone
    /\ call.cmd.username = "user"
    /\ Len(fcalls) = 2
    /\ fcalls[2] = [op |-> "write_file", path |-> "/home/u/.config/huelightcli/config.json",
                    content |-> JObj(<<Member("bridge_ip", JStr("192.168.1.1")),
                                       Member("username", JStr("user"))>>)]
    /\ ret = Ok("()")

(***************************************************************************)
(* C29.  For every unparseable response body, of any length and any UTF-8  *)
(* content (including bodies whose 200th byte falls inside a multi-byte    *)
(* character), the parse-failure path of createUser and getAllLights       *)
(* completes by returning an error value (it never aborts the process),    *)
(* and the snippet it logs is a prefix of the body of at most 200          *)
(* characters.                                                             *)
(***************************************************************************)
C29_ParseFailure ==
    \/ Answered("create_user") /\ De_CreateUserResponse(Body.doc).kind = "Err"
    \/ Answered("get_all_lights") /\ De_LightResponse(Body.doc).kind = "Err"

C29_ReturnsErrorWithSnippet ==
    C29_ParseFailure =>
        /\ ret.kind = "Err"
        /\ Len(NewLines) = 1
        /\ \E i \in 1..Len(NewLines[1]) : C3_IsSnippet(NewLines[1][i], Body.raw)

====
